---------------------------- MODULE Spec2Model ----------------------------
(***************************************************************************)
(* libcalendar: conversion of calendar dates through the absolute (fixed)  *)
(* day count.  The library represents every date component as a float64    *)
(* that always holds an integer far below 2^53, so components are modelled *)
(* as integers and math.Floor(a / b) as floored integer division.          *)
(***************************************************************************)
EXTENDS Integers, Sequences, FiniteSets, TLC

VARIABLES calendar, start, orig, date, absolute, nan, steps, date2, absolute2,
          daysBetween, leap, rats, callers,
          pc, reader, buf, tokens, data, array, jsonDate

vars == <<calendar, start, orig, date, absolute, nan, steps, date2, absolute2,
         daysBetween, leap, rats, callers,
         pc, reader, buf, tokens, data, array, jsonDate>>

\* the *big.Rat values in memory and the callers of the helpers that work on
\* them
heapVars == <<rats, callers>>

\* the call of JsonToDate in progress: where it is, the unread input of its
\* scanner, the buffer of scanArray, and the locals tokens, data and array
jsonVars == <<pc, reader, buf, tokens, data, array, jsonDate>>

(***************************************************************************)
(* Bounds of the model.                                                    *)
(***************************************************************************)
\* each window of years is anchor .. anchor + YearSpan
YearSpan == 1
\* each window of absolute dates is anchor .. anchor + DaySpan
DaySpan == 420

\* each window of absolute dates of the Old Hindu lunar calendar is
\* anchor .. anchor + LunarSpan
LunarSpan == 8

\* placeholder of a component that no call has produced yet
None == "none"

\* a caller of the calendar functions holds no *big.Rat of its own
NoHeap == rats = None /\ callers = None

\* no call of JsonToDate is in progress
NoJson ==
    /\ pc = None
    /\ reader = None
    /\ buf = None
    /\ tokens = None
    /\ data = None
    /\ array = None
    /\ jsonDate = None

(***************************************************************************)
(* Arithmetic utilities.                                                   *)
(***************************************************************************)
\* math.Floor(a / b) for b > 0
Floor(a, b) == a \div b

mod(a, b) ==
    LET r == a - b * Floor(a, b)
    IN  IF r < 0 THEN r + b ELSE r

amod(a, b) == mod(a - 1, b) + 1

\* the loop of sum: one pass through the body of the loop takes the index i
\* and the result so far to the next ones; run[s, n] is s after 2^n passes,
\* or after the pass at which p fails if that comes first
sum(f(_), k, p(_)) ==
    LET Pass == [i : Int, result : Int, done : BOOLEAN]
        run[s \in Pass, n \in Nat] ==
            IF s.done THEN s
            ELSE IF n > 0 THEN run[run[s, n - 1], n - 1]
            ELSE IF p(s.i) THEN [i |-> s.i + 1, result |-> s.result + f(s.i), done |-> FALSE]
            ELSE [s EXCEPT !.done = TRUE]
        loop[s \in Pass, n \in Nat] ==
            IF s.done THEN s.result ELSE loop[run[s, n], n + 1]
    IN  loop[[i |-> k, result |-> 0, done |-> FALSE], 0]

member(x, s) == \E i \in 1..Len(s) : x = s[i]

(***************************************************************************)
(* The Gregorian calendar.                                                 *)
(***************************************************************************)
january == 1

GregorianDate(y, m, d) == [Year |-> y, Month |-> m, Day |-> d]

daysInMonths == <<31, 28, 31, 30, 31, 30, 31, 31, 30, 31, 30, 31>>

\* daysInMonths[int(month)-1] of the 0-based slice is daysInMonths[month] here
\* a leap year every fourth year, as in the Julian calendar
LastDayOfGregorianMonthEveryFourth(month, year) ==
    IF month = 2 /\ mod(year, 4) = 0
    THEN 29
    ELSE daysInMonths[month]

LastDayOfGregorianMonth(month, year) ==
    IF month = 2 /\ mod(year, 4) = 0 /\ ~member(mod(year, 400), <<100, 200, 300>>)
    THEN 29
    ELSE daysInMonths[month]

AbsoluteFromGregorianNoCentury(d) ==
    d.Day
    + sum(LAMBDA m : LastDayOfGregorianMonth(m, d.Year), 1, LAMBDA m : m < d.Month)
    + 365 * (d.Year - 1)
    + Floor(d.Year - 1, 4)

AbsoluteFromGregorian(d) ==
    d.Day
    + sum(LAMBDA m : LastDayOfGregorianMonth(m, d.Year), 1, LAMBDA m : m < d.Month)
    + 365 * (d.Year - 1)
    + Floor(d.Year - 1, 4)
    + (-Floor(d.Year - 1, 100))
    + Floor(d.Year - 1, 400)

GregorianFromAbsolute(absoluteDate) ==
    LET d_0 == absoluteDate - 1
        n_400 == Floor(d_0, 146097)
        d_1 == mod(d_0, 146097)
        n_100 == Floor(d_1, 36524)
        d_2 == mod(d_1, 36524)
        n_4 == Floor(d_2, 1461)
        d_3 == mod(d_2, 1461)
        n_1 == Floor(d_3, 365)
        year0 == 400 * n_400 + 100 * n_100 + 4 * n_4 + n_1
        year == IF n_100 = 4 \/ n_1 = 4 THEN year0 ELSE year0 + 1
        month == sum(LAMBDA m : 1, 1,
                     LAMBDA m : absoluteDate > AbsoluteFromGregorian(
                         GregorianDate(year, m, LastDayOfGregorianMonth(m, year)))) + 1
        day == absoluteDate - (AbsoluteFromGregorian(GregorianDate(year, month, 1)) - 1)
    IN  GregorianDate(year, month, day)

(***************************************************************************)
(* The ISO calendar.                                                       *)
(***************************************************************************)
IsoDate(y, w, d) == [Year |-> y, Week |-> w, Day |-> d]

KDayOnOrBefore(absoluteDate, k) == absoluteDate - mod(absoluteDate - k, 7)

AbsoluteFromIsoSundayWeek(d) ==
    KDayOnOrBefore(AbsoluteFromGregorian(GregorianDate(d.Year, january, 4)), 0)
    + 7 * (d.Week - 1)
    + (d.Day - 1)

AbsoluteFromIso(d) ==
    KDayOnOrBefore(AbsoluteFromGregorian(GregorianDate(d.Year, january, 4)), 1)
    + 7 * (d.Week - 1)
    + (d.Day - 1)

\* the ISO year taken to be the Gregorian year of the date
IsoFromAbsoluteOfGregorianYear(absoluteDate) ==
    LET year == GregorianFromAbsolute(absoluteDate).Year
        week == 1 + Floor(absoluteDate - AbsoluteFromIso(IsoDate(year, 1, 1)), 7)
        day == IF mod(absoluteDate, 7) = 0 THEN 7 ELSE mod(absoluteDate, 7)
    IN  IsoDate(year, week, day)

IsoFromAbsolute(absoluteDate) ==
    LET approx == GregorianFromAbsolute(absoluteDate - 3).Year
        year == IF absoluteDate >= AbsoluteFromIso(IsoDate(approx + 1, 1, 1))
                THEN approx + 1
                ELSE approx
        week == 1 + Floor(absoluteDate - AbsoluteFromIso(IsoDate(year, 1, 1)), 7)
        day == IF mod(absoluteDate, 7) = 0 THEN 7 ELSE mod(absoluteDate, 7)
    IN  IsoDate(year, week, day)

(***************************************************************************)
(* The Julian calendar.                                                    *)
(***************************************************************************)
JulianDate(y, m, d) == [Year |-> y, Month |-> m, Day |-> d]

LastDayOfJulianMonth(month, year) ==
    IF month = 2 /\ mod(year, 4) = 0
    THEN 29
    ELSE daysInMonths[month]

\* a count without the two days by which the Julian epoch precedes the
\* Gregorian one
AbsoluteFromJulianNoOffset(d) ==
    d.Day
    + sum(LAMBDA m : LastDayOfJulianMonth(m, d.Year), 1, LAMBDA m : m < d.Month)
    + 365 * (d.Year - 1)
    + Floor(d.Year - 1, 4)

AbsoluteFromJulian(d) ==
    d.Day
    + sum(LAMBDA m : LastDayOfJulianMonth(m, d.Year), 1, LAMBDA m : m < d.Month)
    + 365 * (d.Year - 1)
    + Floor(d.Year - 1, 4)
    - 2

\* the first estimate of the year taken with years of 365 days
JulianFromAbsoluteOfCommonYears(absoluteDate) ==
    LET approx == Floor(absoluteDate + 2, 365)
        year == approx + sum(LAMBDA y : 1, approx,
                    LAMBDA y : absoluteDate >= AbsoluteFromJulian(JulianDate(y + 1, january, 1)))
        month == 1 + sum(LAMBDA m : 1, 1,
                    LAMBDA m : absoluteDate > AbsoluteFromJulian(
                        JulianDate(year, m, LastDayOfJulianMonth(m, year))))
        day == absoluteDate - (AbsoluteFromJulian(JulianDate(year, month, 1)) - 1)
    IN  JulianDate(year, month, day)

JulianFromAbsolute(absoluteDate) ==
    LET approx == Floor(absoluteDate + 2, 366)
        year == approx + sum(LAMBDA y : 1, approx,
                    LAMBDA y : absoluteDate >= AbsoluteFromJulian(JulianDate(y + 1, january, 1)))
        month == 1 + sum(LAMBDA m : 1, 1,
                    LAMBDA m : absoluteDate > AbsoluteFromJulian(
                        JulianDate(year, m, LastDayOfJulianMonth(m, year))))
        day == absoluteDate - (AbsoluteFromJulian(JulianDate(year, month, 1)) - 1)
    IN  JulianDate(year, month, day)

(***************************************************************************)
(* The Islamic calendar.                                                   *)
(***************************************************************************)
muharram == 1

IslamicDate(y, m, d) == [Year |-> y, Month |-> m, Day |-> d]

IslamicLeapYear(year) == mod(14 + 11 * year, 30) < 11

\* months of 30 and 29 days in turn, in every year
LastDayOfIslamicMonthAlternating(month, year) ==
    IF mod(month, 2) = 1 THEN 30 ELSE 29

LastDayOfIslamicMonth(month, year) ==
    IF mod(month, 2) # 0 \/ (month = 12 /\ IslamicLeapYear(year))
    THEN 30
    ELSE 29

AbsoluteFromIslamicNoLeap(d) ==
    d.Day
    + 29 * (d.Month - 1)
    + Floor(d.Month, 2)
    + (d.Year - 1) * 354
    + 227014

AbsoluteFromIslamic(d) ==
    d.Day
    + 29 * (d.Month - 1)
    + Floor(d.Month, 2)
    + (d.Year - 1) * 354
    + Floor(3 + 11 * d.Year, 30)
    + 227014

IslamicFromAbsoluteBody(absoluteDate) ==
    LET approx == Floor(absoluteDate - 227014, 355)
        year == approx + sum(LAMBDA y : 1, approx,
                    LAMBDA y : absoluteDate >= AbsoluteFromIslamic(IslamicDate(y + 1, muharram, 1)))
        month == 1 + sum(LAMBDA m : 1, 1,
                    LAMBDA m : absoluteDate > AbsoluteFromIslamic(
                        IslamicDate(year, m, LastDayOfIslamicMonth(m, year))))
        day == absoluteDate - (AbsoluteFromIslamic(IslamicDate(year, month, 1)) - 1)
    IN  IslamicDate(year, month, day)

IslamicFromAbsoluteLateGuard(absoluteDate) ==
    IF absoluteDate <= 227015
    THEN IslamicDate(0, 0, 0)
    ELSE IslamicFromAbsoluteBody(absoluteDate)

IslamicFromAbsolute(absoluteDate) ==
    IF absoluteDate <= 227014
    THEN IslamicDate(0, 0, 0)
    ELSE IslamicFromAbsoluteBody(absoluteDate)

(***************************************************************************)
(* The Hebrew calendar.                                                    *)
(***************************************************************************)
HebrewDate(y, m, d) == [Year |-> y, Month |-> m, Day |-> d]

HebrewLeapYear(year) == mod(1 + 7 * year, 19) < 7

LastMonthOfHebrewYear(year) == IF HebrewLeapYear(year) THEN 13 ELSE 12

\* day of HebrewCalendarElapsedDays: the day of the mean conjunction
HebrewConjunctionDay(year) ==
    LET monthsElapsed == 235 * Floor(year - 1, 19)
                         + 12 * mod(year - 1, 19)
                         + Floor(7 * mod(year - 1, 19) + 1, 19)
        partsElapsed == 204 + 793 * mod(monthsElapsed, 1080)
        hoursElapsed == 5
                        + 12 * monthsElapsed
                        + 793 * Floor(monthsElapsed, 1080)
                        + Floor(partsElapsed, 1080)
    IN  1 + 29 * monthsElapsed + Floor(hoursElapsed, 24)

\* the conjunction day postponed only when the new moon is at or after
\* midday
HebrewCalendarElapsedDaysMiddayOnly(year) ==
    LET monthsElapsed == 235 * Floor(year - 1, 19)
                         + 12 * mod(year - 1, 19)
                         + Floor(7 * mod(year - 1, 19) + 1, 19)
        partsElapsed == 204 + 793 * mod(monthsElapsed, 1080)
        hoursElapsed == 5
                        + 12 * monthsElapsed
                        + 793 * Floor(monthsElapsed, 1080)
                        + Floor(partsElapsed, 1080)
        parts == 1080 * mod(hoursElapsed, 24) + mod(partsElapsed, 1080)
    IN  IF parts >= 19440
        THEN HebrewConjunctionDay(year) + 1
        ELSE HebrewConjunctionDay(year)

HebrewCalendarElapsedDays(year) ==
    LET monthsElapsed == 235 * Floor(year - 1, 19)
                         + 12 * mod(year - 1, 19)
                         + Floor(7 * mod(year - 1, 19) + 1, 19)
        partsElapsed == 204 + 793 * mod(monthsElapsed, 1080)
        hoursElapsed == 5
                        + 12 * monthsElapsed
                        + 793 * Floor(monthsElapsed, 1080)
                        + Floor(partsElapsed, 1080)
        day == 1 + 29 * monthsElapsed + Floor(hoursElapsed, 24)
        parts == 1080 * mod(hoursElapsed, 24) + mod(partsElapsed, 1080)
        alternativeDay ==
            IF \/ parts >= 19440
               \/ (mod(day, 7) = 2 /\ parts >= 9924 /\ ~HebrewLeapYear(year))
               \/ (mod(day, 7) = 1 /\ parts >= 16789 /\ HebrewLeapYear(year - 1))
            THEN day + 1
            ELSE day
    IN  IF member(mod(alternativeDay, 7), <<0, 3, 5>>)
        THEN alternativeDay + 1
        ELSE alternativeDay

\* the number of days of the year before
DaysInPreviousHebrewYear(year) ==
    HebrewCalendarElapsedDays(year) - HebrewCalendarElapsedDays(year - 1)

DaysInHebrewYear(year) ==
    HebrewCalendarElapsedDays(year + 1) - HebrewCalendarElapsedDays(year)

LongHeshvan(year) == mod(DaysInHebrewYear(year), 10) = 5

ShortKislevNever(year) == FALSE

ShortKislev(year) == mod(DaysInHebrewYear(year), 10) = 3

LastDayOfHebrewMonth(month, year) ==
    IF \/ member(month, <<2, 4, 6, 10, 13>>)
       \/ (month = 12 /\ ~HebrewLeapYear(year))
       \/ (month = 8 /\ ~LongHeshvan(year))
       \/ (month = 9 /\ ShortKislev(year))
    THEN 29
    ELSE 30

AbsoluteFromHebrewFromNisan(d) ==
    d.Day
    + sum(LAMBDA m : LastDayOfHebrewMonth(m, d.Year), 1, LAMBDA m : m < d.Month)
    + HebrewCalendarElapsedDays(d.Year)
    + (-1373429)

AbsoluteFromHebrew(d) ==
    IF d.Month < 7
    THEN d.Day
         + sum(LAMBDA m : LastDayOfHebrewMonth(m, d.Year), 7,
               LAMBDA m : m <= LastMonthOfHebrewYear(d.Year))
         + sum(LAMBDA m : LastDayOfHebrewMonth(m, d.Year), 1, LAMBDA m : m < d.Month)
         + HebrewCalendarElapsedDays(d.Year)
         + (-1373429)
    ELSE d.Day
         + sum(LAMBDA m : LastDayOfHebrewMonth(m, d.Year), 7, LAMBDA m : m < d.Month)
         + HebrewCalendarElapsedDays(d.Year)
         + (-1373429)

HebrewFromAbsolute(absoluteDate) ==
    LET approx == Floor(absoluteDate + 1373429, 366)
        year == approx + sum(LAMBDA y : 1, approx,
                    LAMBDA y : absoluteDate >= AbsoluteFromHebrew(HebrewDate(y + 1, 7, 1)))
        first == IF absoluteDate < AbsoluteFromHebrew(HebrewDate(year, 1, 1)) THEN 7 ELSE 1
        month == first + sum(LAMBDA m : 1, first,
                    LAMBDA m : absoluteDate > AbsoluteFromHebrew(
                        HebrewDate(year, m, LastDayOfHebrewMonth(m, year))))
        day == absoluteDate - (AbsoluteFromHebrew(HebrewDate(year, month, 1)) - 1)
    IN  HebrewDate(year, month, day)

(***************************************************************************)
(* The Mayan long count.                                                   *)
(***************************************************************************)
MayanLongCount(b, k, t, u, n) ==
    [Baktun |-> b, Katun |-> k, Tun |-> t, Uinal |-> u, Kin |-> n]

MayanDaysBeforeAbsoluteZero == 1137142

AbsoluteFromMayanLongCount(d) ==
    d.Baktun * 144000
    + d.Katun * 7200
    + d.Tun * 360
    + d.Uinal * 20
    + d.Kin
    - MayanDaysBeforeAbsoluteZero

\* a decode by truncating remainders, as Go's math.Mod would give
MayanLongCountFromAbsoluteTruncating(absoluteDate) ==
    LET longCount == absoluteDate + MayanDaysBeforeAbsoluteZero
        trem(a, b) == IF a >= 0 THEN a % b ELSE -((-a) % b)
        baktun == Floor(longCount, 144000)
        dayOfBaktun == trem(longCount, 144000)
        katun == Floor(dayOfBaktun, 7200)
        dayOfKatun == trem(dayOfBaktun, 7200)
        tun == Floor(dayOfKatun, 360)
        dayOfTun == trem(dayOfKatun, 360)
        uinal == Floor(dayOfTun, 20)
        kin == trem(dayOfTun, 20)
    IN  MayanLongCount(baktun, katun, tun, uinal, kin)

MayanLongCountFromAbsolute(absoluteDate) ==
    LET longCount == absoluteDate + MayanDaysBeforeAbsoluteZero
        baktun == Floor(longCount, 144000)
        dayOfBaktun == mod(longCount, 144000)
        katun == Floor(dayOfBaktun, 7200)
        dayOfKatun == mod(dayOfBaktun, 7200)
        tun == Floor(dayOfKatun, 360)
        dayOfTun == mod(dayOfKatun, 360)
        uinal == Floor(dayOfTun, 20)
        kin == mod(dayOfTun, 20)
    IN  MayanLongCount(baktun, katun, tun, uinal, kin)

(***************************************************************************)
(* The French Revolutionary calendar.                                      *)
(***************************************************************************)
vendemiaire == 1

FrenchDate(y, m, d) == [Year |-> y, Month |-> m, Day |-> d]

\* without the years 15 and 20
FrenchLeapYearUpTo11(year) ==
    \/ member(year, <<3, 7, 11>>)
    \/ /\ year > 20
       /\ mod(year, 4) = 0
       /\ ~member(mod(year, 400), <<100, 200, 300>>)
       /\ mod(year, 4000) # 0

FrenchLeapYear(year) ==
    \/ member(year, <<3, 7, 11>>)
    \/ member(year, <<15, 20>>)
    \/ /\ year > 20
       /\ mod(year, 4) = 0
       /\ ~member(mod(year, 400), <<100, 200, 300>>)
       /\ mod(year, 4000) # 0

FrenchLastDayOfMonth(month, year) ==
    IF month < 13
    THEN 30
    ELSE IF FrenchLeapYear(year) THEN 6 ELSE 5

AbsoluteFromFrenchEarlyRuleOnly(d) ==
    654414 + 365 * (d.Year - 1) + Floor(d.Year, 4) + 30 * (d.Month - 1) + d.Day

AbsoluteFromFrench(d) ==
    IF d.Year < 20
    THEN 654414 + 365 * (d.Year - 1)
         + Floor(d.Year, 4)
         + 30 * (d.Month - 1) + d.Day
    ELSE 654414 + 365 * (d.Year - 1)
         + (Floor(d.Year - 1, 4)
            - Floor(d.Year - 1, 100)
            + Floor(d.Year - 1, 400)
            - Floor(d.Year - 1, 4000))
         + 30 * (d.Month - 1) + d.Day

FrenchFromAbsoluteBody(absoluteDate) ==
    LET approx == Floor(absoluteDate - 654414, 366)
        year == approx + sum(LAMBDA y : 1, approx,
                    LAMBDA y : absoluteDate >= AbsoluteFromFrench(FrenchDate(y + 1, vendemiaire, 1)))
        month == 1 + sum(LAMBDA m : 1, 1,
                    LAMBDA m : absoluteDate > AbsoluteFromFrench(
                        FrenchDate(year, m, FrenchLastDayOfMonth(m, year))))
        day == absoluteDate - (AbsoluteFromFrench(FrenchDate(year, month, 1)) - 1)
    IN  FrenchDate(year, month, day)

FrenchFromAbsolute(absoluteDate) ==
    IF absoluteDate < 654415
    THEN FrenchDate(0, 0, 0)
    ELSE FrenchFromAbsoluteBody(absoluteDate)

(***************************************************************************)
(* math/big: integers of any size.  A magnitude is the sequence of its     *)
(* digits in base Base, least significant first, without leading zeros     *)
(* (so zero is the empty sequence); an integer is a magnitude and a sign.  *)
(* Base * Base fits the 32-bit integers of the model checker.  The         *)
(* arithmetic is written as functions, which take their arguments by       *)
(* value as the methods of math/big do.                                    *)
(***************************************************************************)
Base == 10000

Mag == Seq(Nat)

RECURSIVE MagFromNat(_)
MagFromNat(n) == IF n = 0 THEN <<>> ELSE <<n % Base>> \o MagFromNat(n \div Base)

RECURSIVE NatFromMag(_)
NatFromMag(a) == IF a = <<>> THEN 0 ELSE a[1] + Base * NatFromMag(Tail(a))

MagTrim[a \in Mag] ==
    IF a # <<>> /\ a[Len(a)] = 0 THEN MagTrim[SubSeq(a, 1, Len(a) - 1)] ELSE a

MagCmpFrom[a \in Mag, b \in Mag, i \in Nat] ==
    IF i = 0 THEN 0
    ELSE IF a[i] < b[i] THEN -1
    ELSE IF a[i] > b[i] THEN 1
    ELSE MagCmpFrom[a, b, i - 1]

\* -1, 0 or 1 as a < b, a = b or a > b
MagCmp[a \in Mag, b \in Mag] ==
    IF Len(a) < Len(b) THEN -1
    ELSE IF Len(a) > Len(b) THEN 1
    ELSE MagCmpFrom[a, b, Len(a)]

MagAddCarry[a \in Mag, b \in Mag, c \in Nat] ==
    IF a = <<>> /\ b = <<>>
    THEN IF c = 0 THEN <<>> ELSE <<c>>
    ELSE LET t == (IF a = <<>> THEN 0 ELSE a[1]) + (IF b = <<>> THEN 0 ELSE b[1]) + c
         IN  <<t % Base>> \o MagAddCarry[IF a = <<>> THEN a ELSE Tail(a),
                                        IF b = <<>> THEN b ELSE Tail(b),
                                        t \div Base]

MagAdd[a \in Mag, b \in Mag] == MagAddCarry[a, b, 0]

MagSubBorrow[a \in Mag, b \in Mag, c \in Nat] ==
    IF a = <<>>
    THEN <<>>
    ELSE LET t == a[1] - (IF b = <<>> THEN 0 ELSE b[1]) - c
         IN  <<IF t < 0 THEN t + Base ELSE t>>
             \o MagSubBorrow[Tail(a), IF b = <<>> THEN b ELSE Tail(b),
                             IF t < 0 THEN 1 ELSE 0]

\* a - b for a >= b
MagSub[a \in Mag, b \in Mag] == MagTrim[MagSubBorrow[a, b, 0]]

MagMulCarry[a \in Mag, k \in Nat, c \in Nat] ==
    IF a = <<>>
    THEN IF c = 0 THEN <<>> ELSE <<c>>
    ELSE LET t == a[1] * k + c
         IN  <<t % Base>> \o MagMulCarry[Tail(a), k, t \div Base]

\* a times a digit k
MagMulDigit[a \in Mag, k \in Nat] == MagTrim[MagMulCarry[a, k, 0]]

\* a times Base
MagShift[a \in Mag] == IF a = <<>> THEN a ELSE <<0>> \o a

MagMul[a \in Mag, b \in Mag] ==
    IF a = <<>> \/ b = <<>>
    THEN <<>>
    ELSE MagAdd[MagMulDigit[a, b[1]], MagShift[MagMul[a, Tail(b)]]]

\* one step of the division by a digit k: hi is <<quotient, remainder>> of
\* the higher digits, a1 the next digit
MagDivModDigitStep[hi \in Mag \X Nat, a1 \in Nat, k \in Nat] ==
    <<MagTrim[<<(hi[2] * Base + a1) \div k>> \o hi[1]], (hi[2] * Base + a1) % k>>

\* <<quotient, remainder>> of a by a digit k in 1..Base-1
MagDivModDigit[a \in Mag, k \in Nat] ==
    IF a = <<>>
    THEN <<<<>>, 0>>
    ELSE MagDivModDigitStep[MagDivModDigit[Tail(a), k], a[1], k]

\* the greatest digit e <= guess with e * b <= r
MagQuotientDigit[r \in Mag, b \in Mag, guess \in Nat] ==
    IF MagCmp[MagMulDigit[b, guess], r] > 0
    THEN MagQuotientDigit[r, b, guess - 1]
    ELSE guess

\* the first guess of the digit r \div b, from the leading digits of r and b
MagGuessDigit[r \in Mag, b \in Mag] ==
    LET n == Len(b)
        top == (IF Len(r) > n THEN r[n + 1] ELSE 0) * Base
               + (IF Len(r) >= n THEN r[n] ELSE 0)
    IN  IF top \div b[n] > Base - 1 THEN Base - 1 ELSE top \div b[n]

\* <<digit, remainder>> of r by b, for r < b * Base
MagLongDivDigit[r \in Mag, b \in Mag, digit \in Nat] ==
    <<digit, MagSub[r, MagMulDigit[b, digit]]>>

\* one step of the long division by b: hi is <<quotient, remainder>> of the
\* higher digits, a1 the next digit
MagLongDivModStep[hi \in Mag \X Mag, dr \in Nat \X Mag] ==
    <<MagTrim[<<dr[1]>> \o hi[1]], dr[2]>>

\* the remainder of the higher digits, hi, followed by the next digit a1
MagBringDown[hi \in Mag \X Mag, a1 \in Nat] == MagTrim[<<a1>> \o hi[2]]

MagLongDivModNext[hi \in Mag \X Mag, r \in Mag, b \in Mag] ==
    MagLongDivModStep[hi, MagLongDivDigit[r, b, MagQuotientDigit[r, b, MagGuessDigit[r, b]]]]

\* <<quotient, remainder>> of a by b, for b of two digits or more whose
\* leading digit is at least Base / 2: schoolbook long division, each digit
\* of the quotient guessed from the leading digits and then corrected
MagLongDivModFrom[hi \in Mag \X Mag, a \in Mag, b \in Mag, i \in Nat] ==
    IF i = 0
    THEN hi
    ELSE MagLongDivModFrom[MagLongDivModNext[hi, MagBringDown[hi, a[i]], b], a, b, i - 1]

MagLongDivMod[a \in Mag, b \in Mag] == MagLongDivModFrom[<<<<>>, <<>>>>, a, b, Len(a)]

\* the factor that brings the leading digit of b to Base / 2 or more
MagScale[b \in Mag] == Base \div (b[Len(b)] + 1)

\* <<quotient, remainder>> of a by b when both are multiplied by scale
MagDivModScaled[a \in Mag, b \in Mag, scale \in Nat] ==
    LET qr == MagLongDivMod[MagMulDigit[a, scale], MagMulDigit[b, scale]]
    IN  <<qr[1], MagDivModDigit[qr[2], scale][1]>>

\* <<quotient, remainder>> of a by b > 0
MagDivMod[a \in Mag, b \in Mag] ==
    IF MagCmp[a, b] < 0
    THEN <<<<>>, a>>
    ELSE IF Len(b) = 1
    THEN LET qr == MagDivModDigit[a, b[1]] IN <<qr[1], MagFromNat(qr[2])>>
    ELSE MagDivModScaled[a, b, MagScale[b]]

BigInts == [neg : BOOLEAN, mag : Mag]

BigInt(negative, magnitude) == [neg |-> negative /\ magnitude # <<>>, mag |-> magnitude]

BigFromInt(i) == IF i < 0 THEN BigInt(TRUE, MagFromNat(-i)) ELSE BigInt(FALSE, MagFromNat(i))

IntFromBig(x) == IF x.neg THEN -NatFromMag(x.mag) ELSE NatFromMag(x.mag)

BigNeg[x \in BigInts] == BigInt(~x.neg, x.mag)

BigAdd[x \in BigInts, y \in BigInts] ==
    IF x.neg = y.neg
    THEN BigInt(x.neg, MagAdd[x.mag, y.mag])
    ELSE IF MagCmp[x.mag, y.mag] >= 0
    THEN BigInt(x.neg, MagSub[x.mag, y.mag])
    ELSE BigInt(y.neg, MagSub[y.mag, x.mag])

BigMul[x \in BigInts, y \in BigInts] == BigInt(x.neg # y.neg, MagMul[x.mag, y.mag])

\* the floor of x / d from <<quotient, remainder>> of the magnitudes
BigFloorOf[negative \in BOOLEAN, qr \in Mag \X Mag] ==
    IF ~negative THEN BigInt(FALSE, qr[1])
    ELSE IF qr[2] = <<>> THEN BigInt(TRUE, qr[1])
    ELSE BigInt(TRUE, MagAdd[qr[1], <<1>>])

\* the greatest integer q with q * d <= x, for a magnitude d > 0
BigFloorDiv[x \in BigInts, d \in Mag] == BigFloorOf[x.neg, MagDivMod[x.mag, d]]

(***************************************************************************)
(* math/big: rational numbers, a numerator over a positive denominator.    *)
(* big.Rat keeps its values in lowest terms; the model does not reduce     *)
(* them and never compares two representations, only values.               *)
(***************************************************************************)
Rats == [num : BigInts, den : Mag]

Rat(n, d) == [num |-> n, den |-> d]

\* big.NewRat(a, b) for b > 0
NewRat(a, b) == Rat(BigFromInt(a), MagFromNat(b))

RatAdd[x \in Rats, y \in Rats] ==
    Rat(BigAdd[BigMul[x.num, BigInt(FALSE, y.den)], BigMul[y.num, BigInt(FALSE, x.den)]],
        MagMul[x.den, y.den])

RatNeg[x \in Rats] == Rat(BigNeg[x.num], x.den)

RatMul[x \in Rats, y \in Rats] == Rat(BigMul[x.num, y.num], MagMul[x.den, y.den])

\* x / y for y # 0
RatQuo[x \in Rats, y \in Rats] ==
    Rat(BigMul[x.num, BigInt(y.num.neg, y.den)], MagMul[x.den, y.num.mag])

\* -1, 0 or 1: x.Cmp of zero
RatSign[x \in Rats] == IF x.num.mag = <<>> THEN 0 ELSE IF x.num.neg THEN -1 ELSE 1

\* x.Float64() followed by math.Floor.  The nearest float64 of the rationals
\* of this library has the floor of the rational itself: their values stay
\* below 2^23 and their fractional parts are multiples of 1/d for d < 2^35.
RatFloor[x \in Rats] == IntFromBig(BigFloorDiv[x.num, x.den])

(***************************************************************************)
(* Convenience functions for *big.Rat.                                     *)
(***************************************************************************)
add[x \in Seq(Rats)] ==
    IF x = <<>> THEN Rat(BigFromInt(0), <<1>>) ELSE RatAdd[add[SubSeq(x, 1, Len(x) - 1)], x[Len(x)]]

sub[x \in Rats, y \in Rats] == RatAdd[x, RatNeg[y]]

mult[x \in Seq(Rats)] ==
    IF x = <<>> THEN NewRat(1, 1) ELSE RatMul[mult[SubSeq(x, 1, Len(x) - 1)], x[Len(x)]]

div[x \in Rats, y \in Rats] == RatQuo[x, y]

quotient[x \in Rats, y \in Rats] == RatFloor[div[x, y]]

floorf[x \in Rats] == RatFloor[x]

floor[x \in Rats] == NewRat(floorf[x], 1)

modr[a \in Rats, b \in Rats] ==
    LET r == sub[a, mult[<<b, floor[div[a, b]]>>]]
    IN  IF RatSign[r] < 0 THEN add[<<r, b>>] ELSE r

(***************************************************************************)
(* The Old Hindu calendars.                                                *)
(***************************************************************************)
OldHinduSolarDate(y, m, d) == [Year |-> y, Month |-> m, Day |-> d]

OldHinduLunarDate(y, m, l, d) == [Year |-> y, Month |-> m, LeapMonth |-> l, Day |-> d]

SolarSiderealYear == add[<<NewRat(365, 1), NewRat(279457, 1080000)>>]
SolarMonthTropical == div[NewRat(365, 1), NewRat(12, 1)]
SolarMonth == div[SolarSiderealYear, NewRat(12, 1)]
LunarSiderealMonth == add[<<NewRat(27, 1), NewRat(4644439, 14438334)>>]
LunarSynodicMonth == add[<<NewRat(29, 1), NewRat(7087771, 13358334)>>]

SolarLongitude[t \in Rats] == mult[<<modr[div[t, SolarSiderealYear], NewRat(1, 1)], NewRat(360, 1)>>]

Zodiac[t \in Rats] == quotient[SolarLongitude[t], NewRat(30, 1)] + 1

OldHinduSolarFromAbsolute(absoluteDate) ==
    LET hdate == add[<<NewRat(absoluteDate, 1), NewRat(1132959, 1), NewRat(1, 4)>>]
        year == quotient[hdate, SolarSiderealYear]
        month == Zodiac[hdate]
        day == floorf[modr[hdate, SolarMonth]] + 1
    IN  OldHinduSolarDate(year, month, day)

AbsoluteFromOldHinduSolar(d) ==
    LET year == NewRat(d.Year, 1)
        month == NewRat(d.Month, 1)
        day == NewRat(d.Day, 1)
        one == NewRat(1, 1)
    IN  RatFloor[add[<<mult[<<year, SolarSiderealYear>>],
                       mult[<<sub[month, one], SolarMonth>>],
                       day,
                       NewRat(-1, 4),
                       NewRat(-1132959, 1)>>]]

LunarLongitude[t \in Rats] == mult[<<modr[div[t, LunarSiderealMonth], NewRat(1, 1)], NewRat(360, 1)>>]

LunarPhase[t \in Rats] ==
    1 + quotient[modr[sub[LunarLongitude[t], SolarLongitude[t]], NewRat(360, 1)],
                 NewRat(12, 1)]

NewMoon[t \in Rats] == sub[t, modr[t, LunarSynodicMonth]]

OldHinduLunarFromAbsolute(absoluteDate) ==
    LET hdate == NewRat(absoluteDate + 1132959, 1)
        sunrise == add[<<hdate, NewRat(1, 4)>>]
        lastNewMoon == NewMoon[sunrise]
        nextNewMoon == add[<<lastNewMoon, LunarSynodicMonth>>]
        month == amod(Zodiac[lastNewMoon] + 1, 12)
        day == LunarPhase[sunrise]
        leapMonth == Zodiac[lastNewMoon] = Zodiac[nextNewMoon]
        nextMonth == IF leapMonth
                     THEN add[<<nextNewMoon, LunarSynodicMonth>>]
                     ELSE add[<<nextNewMoon, NewRat(0, 1)>>]
        year == quotient[nextMonth, SolarSiderealYear]
    IN  OldHinduLunarDate(year, month, leapMonth, day)

OldHinduLunarPrecedes(d1, d2) ==
    \/ d1.Year < d2.Year
    \/ /\ d1.Year = d2.Year
       /\ \/ d1.Month < d2.Month
          \/ /\ d1.Month = d2.Month
             /\ \/ d1.LeapMonth /\ ~d2.LeapMonth
                \/ d1.LeapMonth = d2.LeapMonth /\ d1.Day < d2.Day

\* the float64 returned: a number, or NaN
Number(v) == [nan |-> FALSE, value |-> v]
NaN == [nan |-> TRUE, value |-> 0]

\* the day at which AbsoluteFromOldHinduLunar starts its search
OldHinduLunarApproxFromMonth(d) ==
    LET years == d.Year
        months == d.Month
    IN  floorf[mult[<<NewRat(years, 1), SolarSiderealYear>>]]
        + floorf[mult[<<NewRat(months, 1), LunarSynodicMonth>>]]
        + (-1132959)

OldHinduLunarApprox(d) ==
    LET years == d.Year
        months == d.Month - 2
    IN  floorf[mult[<<NewRat(years, 1), SolarSiderealYear>>]]
        + floorf[mult[<<NewRat(months, 1), LunarSynodicMonth>>]]
        + (-1132959)

AbsoluteFromOldHinduLunar(d) ==
    LET approx == OldHinduLunarApprox(d)
        try == approx + sum(LAMBDA i : 1, approx,
                            LAMBDA i : OldHinduLunarPrecedes(OldHinduLunarFromAbsolute(i), d))
        \* the last statement, entered once try has its value
        check[t \in Int] == IF OldHinduLunarFromAbsolute(t) = d THEN Number(t) ELSE NaN
    IN  check[try]

(***************************************************************************)
(* The Mayan haab and tzolkin calendars.                                   *)
(***************************************************************************)
cumku == 18
ahau == 20

MayanHaabDate(d, m) == [Day |-> d, Month |-> m]

MayanTzolkinDate(n, m) == [Number |-> n, Name |-> m]

MayanHaabAtEpoch == MayanHaabDate(8, cumku)

\* a month counted from 0, without the + 1
MayanHaabFromAbsoluteMonthFromZero(absoluteDate) ==
    LET longCount == absoluteDate + MayanDaysBeforeAbsoluteZero
        dayOfHaab == mod(longCount + MayanHaabAtEpoch.Day
                         + (20 * (MayanHaabAtEpoch.Month - 1)), 365)
    IN  MayanHaabDate(mod(dayOfHaab, 20), Floor(dayOfHaab, 20))

MayanHaabFromAbsolute(absoluteDate) ==
    LET longCount == absoluteDate + MayanDaysBeforeAbsoluteZero
        dayOfHaab == mod(longCount + MayanHaabAtEpoch.Day
                         + (20 * (MayanHaabAtEpoch.Month - 1)), 365)
        day == mod(dayOfHaab, 20)
        month == Floor(dayOfHaab, 20) + 1
    IN  MayanHaabDate(day, month)

\* the difference of the days is the one multiplied by 20, as in the source
MayanHaabDifference(d1, d2) ==
    mod(20 * (d2.Day - d1.Day) + (d2.Month - d1.Month), 365)

\* dateZero is the named result date of the function, which Go initialises
\* to 0 and the function reads before assigning it
MayanHaabOnOrBefore(haab, d) ==
    LET dateZero == 0
    IN  d - mod(dateZero - MayanHaabDifference(MayanHaabFromAbsolute(0), haab), 365)

MayanTzolkinAtEpoch == MayanTzolkinDate(4, ahau)

MayanTzolkinFromAbsolute(absoluteDate) ==
    LET longCount == absoluteDate + MayanDaysBeforeAbsoluteZero
        number == amod(longCount + MayanTzolkinAtEpoch.Number, 13)
        name == amod(longCount + MayanTzolkinAtEpoch.Name, 20)
    IN  MayanTzolkinDate(number, name)

\* the difference of the numbers alone
MayanTzolkinDifferenceOfNumbers(d1, d2) == mod(d2.Number - d1.Number, 260)

MayanTzolkinDifference(d1, d2) ==
    LET numberDifference == d2.Number - d1.Number
        nameDifference == d2.Name - d1.Name
    IN  mod(numberDifference
            + (13 * mod(3 * (numberDifference - nameDifference), 20)), 260)

MayanHaabTzolkinOnOrBefore(haab, tzolkin, d) ==
    LET haabDifference == MayanHaabDifference(MayanHaabFromAbsolute(0), haab)
        tzolkinDifference ==
            MayanTzolkinDifference(MayanTzolkinFromAbsolute(0), tzolkin)
        difference == tzolkinDifference - haabDifference
    IN  IF mod(difference, 5) = 0
        THEN Number(d - mod(d - (haabDifference + (365 * difference)), 18980))
        ELSE NaN

(***************************************************************************)
(* The names of the months, the texts of the dates and the generic Date.   *)
(* A map from the numbers 1..n to names is the sequence of its names, which *)
(* is also what values() returns: the names sorted by their keys.          *)
(***************************************************************************)
gregorianMonths ==
    <<"January", "February", "March", "April", "May", "June", "July",
      "August", "September", "October", "November", "December">>

islamicMonths ==
    <<"Muharram", "Safar", "Rabi I", "Rabi II", "Jumada I", "Jumada II",
      "Rajab", "Sha' Ban", "Ramadan", "Shawwal", "Dhu al-Qada",
      "Dhu al-Hijjah">>

hebrewMonths ==
    <<"Nisan", "Iyyar", "Sivan", "Tammuz", "Av", "Elul", "Tishri",
      "Heshvan", "Kislev", "Teveth", "Shevat", "Adar ">>

mayanHaabMonths ==
    <<"Pop", "Uo", "Zip", "Zotz", "Tzec", "Xul", "Yaxkin", "Mol", "Chen",
      "Yax", "Zac", "Ceh", "Mac", "Kankin", "Muan", "Pax", "Kayab",
      "Cumku">>

mayanTzolkinNames ==
    <<"Imix", "Ik", "Akbal", "Kan", "Chiccan", "Cimi", "Manik", "Lamat",
      "Muluc", "Oc", "Chuen", "Eb", "Ben", "Ix", "Men", "Cib", "Caban",
      "Etznab", "Cauac", "Ahau">>

frenchMonths ==
    <<"Vendémiaire", "Brumaire", "Frimaire", "Nivôse", "Pluviôse",
      "Ventôse", "Germinal", "Floréal", "Prairial", "Messidor",
      "Thermidor", "Fructidor", "jour complémentaire">>

hinduSolarMonths ==
    <<"Mesha", "Vrshabha", "Mithuna", "Karka", "Simha", "Kanya", "Tula",
      "Vrischika", "Dhanus", "Makara", "Kumbha", "Mina">>

hinduLunarMonths ==
    <<"Chaitra", "Vaisakha", "Jyaishtha", "Ashadha", "Sravana",
      "Bhadrapada", "Asvina", "Kartika", "Margasira", "Pausha", "Magha",
      "Phalguna">>

\* x[m] of a Go map: the name, or the empty string when m is not a key
MonthName(x, m) == IF m \in 1..Len(x) THEN x[m] ELSE ""

\* %v of a float64 that holds an integer
FormatValue(v) == ToString(v)

\* %02d of a week that is not negative
FormatWeek(w) == IF w \in 0..9 THEN "0" \o ToString(w) ELSE ToString(w)

DayMonthYear(d, month) ==
    FormatValue(d.Day) \o " " \o month \o " " \o FormatValue(d.Year)

\* the String method of the date type of a calendar
String(type, d) ==
    CASE type = "gregorian" -> DayMonthYear(d, MonthName(gregorianMonths, d.Month))
      [] type = "iso" ->
            FormatValue(d.Year) \o "-W" \o FormatWeek(d.Week) \o "-" \o FormatValue(d.Day)
      [] type = "islamic" -> DayMonthYear(d, MonthName(islamicMonths, d.Month))
      [] type = "hebrew" ->
            DayMonthYear(d, IF d.Month = 12 /\ HebrewLeapYear(d.Year) THEN "Adar I"
                            ELSE IF d.Month = 13 /\ HebrewLeapYear(d.Year) THEN "Adar II"
                            ELSE MonthName(hebrewMonths, d.Month))
      [] type = "mayanLongCount" ->
            FormatValue(d.Baktun) \o "." \o FormatValue(d.Katun) \o "."
                \o FormatValue(d.Tun) \o "." \o FormatValue(d.Uinal) \o "."
                \o FormatValue(d.Kin)
      [] type = "mayanHaab" ->
            FormatValue(d.Day) \o " " \o MonthName(mayanHaabMonths, d.Month)
      [] type = "mayanTzolkin" ->
            FormatValue(d.Number) \o " " \o MonthName(mayanTzolkinNames, d.Name)
      [] type = "french" ->
            FormatValue(d.Day) \o " " \o MonthName(frenchMonths, d.Month) \o " an "
                \o FormatValue(d.Year)
      [] type = "oldHinduSolar" -> DayMonthYear(d, MonthName(hinduSolarMonths, d.Month))
      [] type = "oldHinduLunar" -> DayMonthYear(d, MonthName(hinduLunarMonths, d.Month))

\* fmt.Sprint of a date: its String method, and for JulianDate, which has
\* none, the fields between braces
Sprint(type, d) ==
    IF type = "julian"
    THEN "{" \o FormatValue(d.Year) \o " " \o FormatValue(d.Month) \o " "
             \o FormatValue(d.Day) \o "}"
    ELSE String(type, d)

HebrewMonthNames(d) ==
    IF ~HebrewLeapYear(d.Year)
    THEN hebrewMonths
    ELSE [hebrewMonths EXCEPT ![12] = "Adar I"] \o <<"Adar II">>

\* the Date method of the date type of a calendar
Date(type, d) ==
    LET yearMonthDay(monthNames) ==
            [Calendar |-> type,
             Components |-> <<d.Year, d.Month, d.Day>>,
             ComponentNames |-> <<"year", "month", "day">>,
             MonthNames |-> monthNames]
    IN  CASE type = "gregorian" -> yearMonthDay(gregorianMonths)
          [] type = "julian" -> yearMonthDay(gregorianMonths)
          [] type = "iso" ->
                [Calendar |-> type,
                 Components |-> <<d.Year, d.Week, d.Day>>,
                 ComponentNames |-> <<"year", "week", "day">>,
                 MonthNames |-> <<>>]
          [] type = "islamic" -> yearMonthDay(islamicMonths)
          [] type = "hebrew" -> yearMonthDay(HebrewMonthNames(d))
          [] type = "mayanLongCount" ->
                [Calendar |-> type,
                 Components |-> <<d.Baktun, d.Katun, d.Tun, d.Uinal, d.Kin>>,
                 ComponentNames |-> <<"baktun", "katun", "tun", "uinal", "kin">>,
                 MonthNames |-> <<>>]
          [] type = "mayanHaab" ->
                [Calendar |-> type,
                 Components |-> <<d.Day, d.Month>>,
                 ComponentNames |-> <<"day", "month">>,
                 MonthNames |-> mayanHaabMonths]
          [] type = "mayanTzolkin" ->
                [Calendar |-> type,
                 Components |-> <<d.Number, d.Name>>,
                 ComponentNames |-> <<"number", "name">>,
                 MonthNames |-> mayanTzolkinNames]
          [] type = "french" -> yearMonthDay(frenchMonths)
          [] type = "oldHinduSolar" -> yearMonthDay(hinduSolarMonths)
          [] type = "oldHinduLunar" -> yearMonthDay(hinduLunarMonths)

\* Date{}: the empty name and no components, names or month names
EmptyDate ==
    [Calendar |-> "", Components |-> <<>>, ComponentNames |-> <<>>, MonthNames |-> <<>>]

\* gregorianFromDate, julianFromDate, ...: the date of a calendar read from
\* the components of a Date, Components[0] being d.Components[1] here; the
\* leap month of an Old Hindu lunar date is not among the components and is
\* left false
FromDate(type, d) ==
    CASE type \in {"gregorian", "julian", "islamic", "hebrew", "french", "oldHinduSolar"} ->
            [Year |-> d.Components[1], Month |-> d.Components[2], Day |-> d.Components[3]]
      [] type = "iso" ->
            IsoDate(d.Components[1], d.Components[2], d.Components[3])
      [] type = "mayanLongCount" ->
            MayanLongCount(d.Components[1], d.Components[2], d.Components[3],
                           d.Components[4], d.Components[5])
      [] type = "mayanHaab" -> MayanHaabDate(d.Components[1], d.Components[2])
      [] type = "mayanTzolkin" -> MayanTzolkinDate(d.Components[1], d.Components[2])
      [] type = "oldHinduLunar" ->
            OldHinduLunarDate(d.Components[1], d.Components[2], FALSE, d.Components[3])

(***************************************************************************)
(* The functions that take the name of a calendar.                         *)
(***************************************************************************)
\* a function that falls back to the Gregorian calendar
FromAbsoluteOrGregorian(absoluteDate, cal) ==
    Sprint("gregorian", GregorianFromAbsolute(absoluteDate))

\* func FromAbsolute(absoluteDate float64, calendar string) string
FromAbsoluteString(absoluteDate, cal) ==
    CASE cal = "gregorian" -> Sprint(cal, GregorianFromAbsolute(absoluteDate))
      [] cal = "julian" -> Sprint(cal, JulianFromAbsolute(absoluteDate))
      [] cal = "iso" -> Sprint(cal, IsoFromAbsolute(absoluteDate))
      [] cal = "islamic" -> Sprint(cal, IslamicFromAbsolute(absoluteDate))
      [] cal = "hebrew" -> Sprint(cal, HebrewFromAbsolute(absoluteDate))
      [] cal = "mayanLongCount" -> Sprint(cal, MayanLongCountFromAbsolute(absoluteDate))
      [] cal = "mayanHaab" -> Sprint(cal, MayanHaabFromAbsolute(absoluteDate))
      [] cal = "mayanTzolkin" -> Sprint(cal, MayanTzolkinFromAbsolute(absoluteDate))
      [] cal = "french" -> Sprint(cal, FrenchFromAbsolute(absoluteDate))
      [] cal = "oldHinduSolar" -> Sprint(cal, OldHinduSolarFromAbsolute(absoluteDate))
      [] cal = "oldHinduLunar" -> Sprint(cal, OldHinduLunarFromAbsolute(absoluteDate))
      [] OTHER -> ""

AbsoluteFromDate(d) ==
    CASE d.Calendar = "gregorian" ->
            Number(AbsoluteFromGregorian(FromDate("gregorian", d)))
      [] d.Calendar = "iso" -> Number(AbsoluteFromIso(FromDate("iso", d)))
      [] d.Calendar = "julian" -> Number(AbsoluteFromJulian(FromDate("julian", d)))
      [] d.Calendar = "islamic" -> Number(AbsoluteFromIslamic(FromDate("islamic", d)))
      [] d.Calendar = "hebrew" -> Number(AbsoluteFromHebrew(FromDate("hebrew", d)))
      [] d.Calendar = "mayanLongCount" ->
            Number(AbsoluteFromMayanLongCount(FromDate("mayanLongCount", d)))
      [] d.Calendar = "french" -> Number(AbsoluteFromFrench(FromDate("french", d)))
      [] d.Calendar = "oldHinduSolar" ->
            Number(AbsoluteFromOldHinduSolar(FromDate("oldHinduSolar", d)))
      [] d.Calendar = "oldHinduLunar" ->
            AbsoluteFromOldHinduLunar(FromDate("oldHinduLunar", d))
      [] OTHER -> NaN

DateFromAbsolute(absoluteDate, cal) ==
    CASE cal = "gregorian" -> Date(cal, GregorianFromAbsolute(absoluteDate))
      [] cal = "iso" -> Date(cal, IsoFromAbsolute(absoluteDate))
      [] cal = "julian" -> Date(cal, JulianFromAbsolute(absoluteDate))
      [] cal = "islamic" -> Date(cal, IslamicFromAbsolute(absoluteDate))
      [] cal = "hebrew" -> Date(cal, HebrewFromAbsolute(absoluteDate))
      [] cal = "mayanLongCount" -> Date(cal, MayanLongCountFromAbsolute(absoluteDate))
      [] cal = "mayanHaab" -> Date(cal, MayanHaabFromAbsolute(absoluteDate))
      [] cal = "mayanTzolkin" -> Date(cal, MayanTzolkinFromAbsolute(absoluteDate))
      [] cal = "french" -> Date(cal, FrenchFromAbsolute(absoluteDate))
      [] cal = "oldHinduSolar" -> Date(cal, OldHinduSolarFromAbsolute(absoluteDate))
      [] cal = "oldHinduLunar" -> Date(cal, OldHinduLunarFromAbsolute(absoluteDate))
      [] OTHER -> EmptyDate

(***************************************************************************)
(* Holidays.                                                               *)
(***************************************************************************)
march == 3
april == 4

\* adjustedEpact of Easter
AdjustedEpact(year) ==
    LET century == Floor(year, 100) + 1
        shiftedEpact ==
            mod(14 + (11 * mod(year, 19)) - Floor(3 * century, 4)
                + Floor(5 + (8 * century), 25) + 30 * century, 30)
    IN  IF shiftedEpact = 0 \/ (shiftedEpact = 1 /\ 10 < mod(year, 19))
        THEN shiftedEpact + 1
        ELSE shiftedEpact

\* paschalMoon of Easter
PaschalMoon(year) ==
    AbsoluteFromGregorian(GregorianDate(year, april, 19)) - AdjustedEpact(year)

\* the Sunday on or before the paschal moon
EasterOnOrBeforeMoon(year) == KDayOnOrBefore(PaschalMoon(year), 0)

Easter(year) == KDayOnOrBefore(PaschalMoon(year) + 7, 0)

(***************************************************************************)
(* The state machine: a caller holds a date or an absolute date and        *)
(* applies the conversion functions of one calendar to what it holds.      *)
(*   calendar   the calendar whose functions are called                    *)
(*   start      "date", "absolute" or "pair": what the caller began with   *)
(*   orig       the value the caller began with                            *)
(*   date       the calendar date held (the first of a pair)               *)
(*   absolute   the absolute date held (that of the first of a pair)       *)
(*   nan        TRUE when the last float64 returned was NaN                *)
(*   steps      the number of calls made                                   *)
(*   date2, absolute2   the second date of a pair and its absolute date    *)
(*   daysBetween   the number of days a difference function returned       *)
(*   leap       what a leap year test returned                             *)
(***************************************************************************)
MaxSteps == 2

HaveDate ==
    \/ start = "date" /\ steps % 2 = 0
    \/ start = "absolute" /\ steps % 2 = 1
    \/ start = "pair" /\ steps = 0

HaveAbsolute ==
    \/ start = "date" /\ steps % 2 = 1
    \/ start = "absolute" /\ steps % 2 = 0

InitDate(cal, dates) ==
    /\ calendar = cal
    /\ start = "date"
    /\ date \in dates
    /\ orig = date
    /\ absolute = None
    /\ nan = FALSE
    /\ steps = 0
    /\ date2 = None
    /\ absolute2 = None
    /\ daysBetween = None
    /\ leap = None
    /\ NoHeap
    /\ NoJson

InitAbsolute(cal, days) ==
    /\ calendar = cal
    /\ start = "absolute"
    /\ absolute \in days
    /\ orig = absolute
    /\ date = None
    /\ nan = FALSE
    /\ steps = 0
    /\ date2 = None
    /\ absolute2 = None
    /\ daysBetween = None
    /\ leap = None
    /\ NoHeap
    /\ NoJson

InitPair(cal, pairs) ==
    /\ calendar = cal
    /\ start = "pair"
    /\ \E p \in pairs : date = p[1] /\ date2 = p[2]
    /\ orig = date
    /\ absolute = None
    /\ nan = FALSE
    /\ steps = 0
    /\ absolute2 = None
    /\ daysBetween = None
    /\ leap = None
    /\ NoHeap
    /\ NoJson

\* absolute := f(date), a number or NaN, and f(date2) too when a pair is held
ToAbsoluteOrNaN(cal, f(_)) ==
    /\ calendar = cal
    /\ HaveDate
    /\ steps < MaxSteps
    /\ absolute' = f(date).value
    /\ nan' = f(date).nan
    /\ absolute2' = IF start = "pair" THEN f(date2).value ELSE absolute2
    /\ steps' = steps + 1
    /\ UNCHANGED heapVars
    /\ UNCHANGED jsonVars
    /\ UNCHANGED <<calendar, start, orig, date, date2, daysBetween, leap>>

ToAbsolute(cal, f(_)) == ToAbsoluteOrNaN(cal, LAMBDA d : Number(f(d)))

\* date := g(absolute)
FromAbsolute(cal, g(_)) ==
    /\ calendar = cal
    /\ HaveAbsolute
    /\ ~nan
    /\ steps < MaxSteps
    /\ date' = g(absolute)
    /\ steps' = steps + 1
    /\ UNCHANGED heapVars
    /\ UNCHANGED jsonVars
    /\ UNCHANGED <<calendar, start, orig, absolute, nan, date2, absolute2,
                   daysBetween, leap>>

CallAbsoluteFromGregorian == ToAbsolute("gregorian", AbsoluteFromGregorian)
CallGregorianFromAbsolute == FromAbsolute("gregorian", GregorianFromAbsolute)
CallAbsoluteFromJulian == ToAbsolute("julian", AbsoluteFromJulian)
CallJulianFromAbsolute == FromAbsolute("julian", JulianFromAbsolute)
CallAbsoluteFromIso == ToAbsolute("iso", AbsoluteFromIso)
CallIsoFromAbsolute == FromAbsolute("iso", IsoFromAbsolute)
CallAbsoluteFromIslamic == ToAbsolute("islamic", AbsoluteFromIslamic)
CallIslamicFromAbsolute == FromAbsolute("islamic", IslamicFromAbsolute)
CallAbsoluteFromHebrew == ToAbsolute("hebrew", AbsoluteFromHebrew)
CallHebrewFromAbsolute == FromAbsolute("hebrew", HebrewFromAbsolute)
CallAbsoluteFromMayanLongCount == ToAbsolute("mayanLongCount", AbsoluteFromMayanLongCount)
CallMayanLongCountFromAbsolute == FromAbsolute("mayanLongCount", MayanLongCountFromAbsolute)
CallAbsoluteFromFrench == ToAbsolute("french", AbsoluteFromFrench)
CallFrenchFromAbsolute == FromAbsolute("french", FrenchFromAbsolute)
CallAbsoluteFromOldHinduSolar == ToAbsolute("oldHinduSolar", AbsoluteFromOldHinduSolar)
CallOldHinduSolarFromAbsolute == FromAbsolute("oldHinduSolar", OldHinduSolarFromAbsolute)
CallAbsoluteFromOldHinduLunar == ToAbsoluteOrNaN("oldHinduLunar", AbsoluteFromOldHinduLunar)
CallOldHinduLunarFromAbsolute == FromAbsolute("oldHinduLunar", OldHinduLunarFromAbsolute)

\* the caller holds two absolute dates, the second k days after the first
InitSpan(cal, dates, spans) ==
    /\ calendar = cal
    /\ start = "span"
    /\ absolute \in dates
    /\ \E k \in spans : absolute2 = absolute + k
    /\ orig = absolute
    /\ date = None
    /\ date2 = None
    /\ nan = FALSE
    /\ steps = 0
    /\ daysBetween = None
    /\ leap = None
    /\ NoHeap
    /\ NoJson

\* the caller holds a haab date, a tzolkin date when it searches for both,
\* and the absolute date at which the search begins
InitSearch(cal, haabs, tzolkins, dates) ==
    /\ calendar = cal
    /\ start = "search"
    /\ date \in haabs
    /\ date2 \in tzolkins
    /\ absolute \in dates
    /\ orig = absolute
    /\ absolute2 = None
    /\ nan = FALSE
    /\ steps = 0
    /\ daysBetween = None
    /\ leap = None
    /\ NoHeap
    /\ NoJson

\* date := g(absolute) and date2 := g(absolute2)
BothFromAbsolute(cal, g(_)) ==
    /\ calendar = cal
    /\ start = "span"
    /\ steps = 0
    /\ date' = g(absolute)
    /\ date2' = g(absolute2)
    /\ steps' = steps + 1
    /\ UNCHANGED heapVars
    /\ UNCHANGED jsonVars
    /\ UNCHANGED <<calendar, start, orig, absolute, nan, absolute2, daysBetween,
                   leap>>

\* daysBetween := f(date, date2)
Difference(cal, f(_, _)) ==
    /\ calendar = cal
    /\ start = "span"
    /\ steps = 1
    /\ daysBetween' = f(date, date2)
    /\ steps' = steps + 1
    /\ UNCHANGED heapVars
    /\ UNCHANGED jsonVars
    /\ UNCHANGED <<calendar, start, orig, date, absolute, nan, date2, absolute2,
                   leap>>

\* absolute2 := f(date, date2, absolute), a number or NaN
OnOrBefore(cal, f(_, _, _)) ==
    /\ calendar = cal
    /\ start = "search"
    /\ steps = 0
    /\ absolute2' = f(date, date2, absolute).value
    /\ nan' = f(date, date2, absolute).nan
    /\ steps' = steps + 1
    /\ UNCHANGED heapVars
    /\ UNCHANGED jsonVars
    /\ UNCHANGED <<calendar, start, orig, date, absolute, date2, daysBetween,
                   leap>>

\* the caller holds a year
InitYear(cal, years) ==
    /\ calendar = cal
    /\ start = "year"
    /\ orig \in years
    /\ date = None
    /\ absolute = None
    /\ nan = FALSE
    /\ steps = 0
    /\ date2 = None
    /\ absolute2 = None
    /\ daysBetween = None
    /\ leap = None
    /\ NoHeap
    /\ NoJson

\* leap := p(orig)
LeapYear(cal, p(_)) ==
    /\ calendar = cal
    /\ start = "year"
    /\ steps = 0
    /\ leap' = p(orig)
    /\ steps' = steps + 1
    /\ UNCHANGED heapVars
    /\ UNCHANGED jsonVars
    /\ UNCHANGED <<calendar, start, orig, date, absolute, nan, date2, absolute2,
                   daysBetween>>

\* absolute := f(orig), the absolute date a function of the year returns
YearToAbsolute(cal, f(_)) ==
    /\ calendar = cal
    /\ start = "year"
    /\ steps = 0
    /\ absolute' = f(orig)
    /\ steps' = steps + 1
    /\ UNCHANGED heapVars
    /\ UNCHANGED jsonVars
    /\ UNCHANGED <<calendar, start, orig, date, nan, date2, absolute2, daysBetween,
                   leap>>

\* daysBetween := f(orig), the number of days a function of the year returns
YearToDays(cal, f(_)) ==
    /\ calendar = cal
    /\ start = "year"
    /\ steps = 0
    /\ daysBetween' = f(orig)
    /\ steps' = steps + 1
    /\ UNCHANGED heapVars
    /\ UNCHANGED jsonVars
    /\ UNCHANGED <<calendar, start, orig, date, absolute, nan, date2, absolute2, leap>>

CallDaysInHebrewYear == YearToDays("DaysInHebrewYear", DaysInHebrewYear)

\* absolute := f(date, date2), the number a function of two values returns
PairToAbsolute(function, f(_, _)) ==
    /\ calendar = function
    /\ start = "pair"
    /\ steps = 0
    /\ absolute' = f(date, date2)
    /\ steps' = steps + 1
    /\ UNCHANGED heapVars
    /\ UNCHANGED jsonVars
    /\ UNCHANGED <<calendar, start, orig, date, nan, date2, absolute2, daysBetween,
                   leap>>

CallQuotient == PairToAbsolute("quotient", LAMBDA x, y : quotient[x, y])

\* AbsoluteFromIso(IsoDate{year, 1, 1})
CallAbsoluteFromIsoNewYear ==
    YearToAbsolute("iso", LAMBDA y : AbsoluteFromIso(IsoDate(y, 1, 1)))

\* the number of days from the new year of a year to the next new year, both
\* as AbsoluteFromGregorian, AbsoluteFromJulian, ... give them
CallAbsoluteFromGregorianNewYears ==
    YearToDays("gregorian",
               LAMBDA y : AbsoluteFromGregorian(GregorianDate(y + 1, january, 1))
                          - AbsoluteFromGregorian(GregorianDate(y, january, 1)))
CallAbsoluteFromJulianNewYears ==
    YearToDays("julian",
               LAMBDA y : AbsoluteFromJulian(JulianDate(y + 1, january, 1))
                          - AbsoluteFromJulian(JulianDate(y, january, 1)))
CallAbsoluteFromIslamicNewYears ==
    YearToDays("islamic",
               LAMBDA y : AbsoluteFromIslamic(IslamicDate(y + 1, muharram, 1))
                          - AbsoluteFromIslamic(IslamicDate(y, muharram, 1)))
CallAbsoluteFromHebrewNewYears ==
    YearToDays("hebrew",
               LAMBDA y : AbsoluteFromHebrew(HebrewDate(y + 1, 7, 1))
                          - AbsoluteFromHebrew(HebrewDate(y, 7, 1)))
CallAbsoluteFromFrenchNewYears ==
    YearToDays("french",
               LAMBDA y : AbsoluteFromFrench(FrenchDate(y + 1, vendemiaire, 1))
                          - AbsoluteFromFrench(FrenchDate(y, vendemiaire, 1)))

CallEaster == YearToAbsolute("easter", Easter)
CallHebrewCalendarElapsedDays ==
    YearToAbsolute("HebrewCalendarElapsedDays", HebrewCalendarElapsedDays)
\* the absolute date of 1 Tishri, the new year
CallAbsoluteFromHebrewNewYear ==
    YearToAbsolute("hebrewNewYear", LAMBDA y : AbsoluteFromHebrew(HebrewDate(y, 7, 1)))

\* the test of a caller for a Gregorian leap year
CallLastDayOfGregorianMonth ==
    LeapYear("gregorian", LAMBDA year : LastDayOfGregorianMonth(2, year) = 29)
CallHebrewLeapYear == LeapYear("hebrew", HebrewLeapYear)
CallIslamicLeapYear == LeapYear("islamic", IslamicLeapYear)
CallFrenchLeapYear == LeapYear("french", FrenchLeapYear)

CallMayanHaabFromAbsolute == FromAbsolute("mayanHaab", MayanHaabFromAbsolute)
CallMayanTzolkinFromAbsolute == FromAbsolute("mayanTzolkin", MayanTzolkinFromAbsolute)
CallMayanHaabFromAbsoluteTwice == BothFromAbsolute("mayanHaab", MayanHaabFromAbsolute)
CallMayanTzolkinFromAbsoluteTwice ==
    BothFromAbsolute("mayanTzolkin", MayanTzolkinFromAbsolute)
CallMayanHaabDifference == Difference("mayanHaab", MayanHaabDifference)
CallMayanTzolkinDifference == Difference("mayanTzolkin", MayanTzolkinDifference)
CallMayanHaabOnOrBefore ==
    OnOrBefore("mayanHaab", LAMBDA h, t, d : Number(MayanHaabOnOrBefore(h, d)))
CallMayanHaabTzolkinOnOrBefore ==
    OnOrBefore("mayanHaabTzolkin", MayanHaabTzolkinOnOrBefore)

\* the caller holds the name of a calendar, in calendar, and the absolute
\* date it passes with it to the function named by start
InitNamed(function, names, absolutes) ==
    /\ calendar \in names
    /\ start = function
    /\ date = None
    /\ absolute \in absolutes
    /\ orig = absolute
    /\ nan = FALSE
    /\ steps = 0
    /\ date2 = None
    /\ absolute2 = None
    /\ daysBetween = None
    /\ leap = None
    /\ NoHeap
    /\ NoJson

\* the caller holds the name of a calendar, in calendar, and the components
\* of the Date of that name it passes to the function named by start
InitNamedDate(function, names, components) ==
    /\ calendar \in names
    /\ start = function
    /\ date \in components
    /\ absolute = None
    /\ orig = date
    /\ nan = FALSE
    /\ steps = 0
    /\ date2 = None
    /\ absolute2 = None
    /\ daysBetween = None
    /\ leap = None
    /\ NoHeap
    /\ NoJson

\* date := g(absolute, calendar)
NamedFromAbsolute(function, g(_, _)) ==
    /\ start = function
    /\ steps = 0
    /\ date' = g(absolute, calendar)
    /\ steps' = steps + 1
    /\ UNCHANGED heapVars
    /\ UNCHANGED jsonVars
    /\ UNCHANGED <<calendar, start, orig, absolute, nan, date2, absolute2,
                   daysBetween, leap>>

\* absolute := f(d), a number or NaN, for the Date d that has the name
\* calendar and the components held in date
NamedToAbsolute(function, f(_)) ==
    /\ start = function
    /\ steps = 0
    /\ absolute' = f([EmptyDate EXCEPT !.Calendar = calendar, !.Components = date]).value
    /\ nan' = f([EmptyDate EXCEPT !.Calendar = calendar, !.Components = date]).nan
    /\ steps' = steps + 1
    /\ UNCHANGED heapVars
    /\ UNCHANGED jsonVars
    /\ UNCHANGED <<calendar, start, orig, date, date2, absolute2, daysBetween, leap>>

CallFromAbsolute == NamedFromAbsolute("FromAbsolute", FromAbsoluteString)
CallDateFromAbsolute == NamedFromAbsolute("DateFromAbsolute", DateFromAbsolute)
CallAbsoluteFromDate == NamedToAbsolute("AbsoluteFromDate", AbsoluteFromDate)

\* absolute := f(date), a number or NaN, for the Date held in date
NamedBack(function, f(_)) ==
    /\ start = function
    /\ steps = 1
    /\ absolute' = f(date).value
    /\ nan' = f(date).nan
    /\ steps' = steps + 1
    /\ UNCHANGED heapVars
    /\ UNCHANGED jsonVars
    /\ UNCHANGED <<calendar, start, orig, date, date2, absolute2, daysBetween, leap>>

CallDateFromAbsoluteOfTag == NamedFromAbsolute("DateRoundTrip", DateFromAbsolute)
CallAbsoluteFromDateOfDate == NamedBack("DateRoundTrip", AbsoluteFromDate)

(***************************************************************************)
(* Inputs: windows of years and of absolute dates, and the valid dates of  *)
(* each calendar within them.                                              *)
(***************************************************************************)
LunarWindows(anchors) == UNION {a..(a + LunarSpan) : a \in anchors}
YearWindows(anchors) == UNION {a..(a + YearSpan) : a \in anchors}
DayWindows(anchors) == UNION {a..(a + DaySpan) : a \in anchors}

ValidDates(years, months(_), lastDay(_, _)) ==
    UNION {UNION {{[Year |-> y, Month |-> m, Day |-> d] : d \in 1..lastDay(m, y)}
                  : m \in months(y)} : y \in years}

GregorianYears == YearWindows({1, 3, 99, 399, 1899, 1999})
ValidGregorianDates ==
    ValidDates(GregorianYears, LAMBDA y : 1..12, LastDayOfGregorianMonth)
ValidJulianDates ==
    ValidDates(GregorianYears, LAMBDA y : 1..12, LastDayOfJulianMonth)

(***************************************************************************)
(* Gregorian and Julian round trips.                                       *)
(***************************************************************************)
InitGregorianJulian ==
    \/ InitDate("gregorian", ValidGregorianDates)
    \/ InitDate("julian", ValidJulianDates)

NextGregorianJulian ==
    \/ CallAbsoluteFromGregorian
    \/ CallGregorianFromAbsolute
    \/ CallAbsoluteFromJulian
    \/ CallJulianFromAbsolute

SpecGregorianJulian == InitGregorianJulian /\ [][NextGregorianJulian]_vars

\* C1: a valid Gregorian date, and a valid Julian date, converted to its
\* absolute date and back is the date the caller began with.
RoundTripGregorianJulian ==
    (calendar \in {"gregorian", "julian"} /\ start = "date" /\ steps = 2)
        => date = orig

\* the Gregorian leap day of year 2000 has made the round trip
RoundTripGregorianJulianWitness ==
    /\ calendar = "gregorian"
    /\ start = "date"
    /\ steps = 2
    /\ orig = GregorianDate(2000, 2, 29)
    /\ date = orig

(***************************************************************************)
(* Hebrew round trips.                                                     *)
(***************************************************************************)
HebrewYears == YearWindows({3761, 3764, 5781, 5783, 5785})

\* the valid Hebrew dates of the window whose absolute date is at least 1
ValidHebrewDates ==
    {d \in ValidDates(HebrewYears, LAMBDA y : 1..LastMonthOfHebrewYear(y),
                      LastDayOfHebrewMonth) : AbsoluteFromHebrew(d) >= 1}

InitHebrew == InitDate("hebrew", ValidHebrewDates)

NextHebrew ==
    \/ CallAbsoluteFromHebrew
    \/ CallHebrewFromAbsolute

SpecHebrew == InitHebrew /\ [][NextHebrew]_vars

\* C2: a valid Hebrew date on or after absolute date 1, converted to its
\* absolute date and back, is the date the caller began with, for months
\* before Tishri (1..6) and from Tishri on (7..13).
RoundTripHebrew ==
    (calendar = "hebrew" /\ start = "date" /\ steps = 2)
        => /\ absolute >= 1
           /\ date = orig

\* the last day of Adar II (month 13) of a leap year has made the round trip
RoundTripHebrewWitness ==
    /\ calendar = "hebrew"
    /\ start = "date"
    /\ steps = 2
    /\ orig = HebrewDate(5782, 13, 29)
    /\ date = orig

(***************************************************************************)
(* Islamic and French round trips.                                         *)
(***************************************************************************)
IslamicYears == YearWindows({1, 29, 1443})
ValidIslamicDates ==
    ValidDates(IslamicYears, LAMBDA y : 1..12, LastDayOfIslamicMonth)

FrenchYears == YearWindows({1, 3, 14, 19, 99, 399, 3999})
ValidFrenchDates ==
    ValidDates(FrenchYears, LAMBDA y : 1..13, FrenchLastDayOfMonth)

InitIslamicFrench ==
    \/ InitDate("islamic", ValidIslamicDates)
    \/ InitDate("french", ValidFrenchDates)

NextIslamicFrench ==
    \/ CallAbsoluteFromIslamic
    \/ CallIslamicFromAbsolute
    \/ CallAbsoluteFromFrench
    \/ CallFrenchFromAbsolute

SpecIslamicFrench == InitIslamicFrench /\ [][NextIslamicFrench]_vars

\* C3: a valid Islamic date on or after 1 Muharram 1, and a valid French
\* date on or after 1 Vendemiaire an 1 (months 1..13), converted to its
\* absolute date and back, is the date the caller began with.
RoundTripIslamicFrench ==
    (calendar \in {"islamic", "french"} /\ start = "date" /\ steps = 2)
        => /\ absolute >= (IF calendar = "islamic" THEN 227015 ELSE 654415)
           /\ date = orig

\* the sixth complementary day of the leap year 20, on the year >= 20 branch
RoundTripIslamicFrenchWitness ==
    /\ calendar = "french"
    /\ start = "date"
    /\ steps = 2
    /\ orig = FrenchDate(20, 13, 6)
    /\ date = orig

(***************************************************************************)
(* ISO round trips.                                                        *)
(***************************************************************************)
IsoDays == DayWindows({1, 36400, 145900, 729900, 737500})

InitIso == InitAbsolute("iso", IsoDays)

NextIso ==
    \/ CallIsoFromAbsolute
    \/ CallAbsoluteFromIso

SpecIso == InitIso /\ [][NextIso]_vars

\* C4: for an absolute date n >= 1 the ISO date has its week in 1..53 and its
\* day in 1..7, Monday being 1 and Sunday 7, and converts back to n.
RoundTripIso ==
    (calendar = "iso" /\ start = "absolute" /\ steps \in {1, 2})
        => /\ date.Week \in 1..53
           /\ date.Day \in 1..7
           /\ date.Day = amod(orig, 7)
           /\ steps = 2 => absolute = orig

\* the Thursday 31 December 2020, in week 53, has made the round trip
RoundTripIsoWitness ==
    /\ calendar = "iso"
    /\ start = "absolute"
    /\ steps = 2
    /\ orig = 737790
    /\ date = IsoDate(2020, 53, 4)
    /\ absolute = orig

(***************************************************************************)
(* Mayan long count round trips.                                           *)
(***************************************************************************)
MayanDays == DayWindows({-1137352, -210, 14700, 738000})

InitMayanLongCount == InitAbsolute("mayanLongCount", MayanDays)

NextMayanLongCount ==
    \/ CallMayanLongCountFromAbsolute
    \/ CallAbsoluteFromMayanLongCount

SpecMayanLongCount == InitMayanLongCount /\ [][NextMayanLongCount]_vars

\* C5: for every absolute date n, also below 1 and before the Mayan epoch,
\* the long count has katun, tun and kin in 0..19 and uinal in 0..17 and
\* converts back to n.
RoundTripMayanLongCount ==
    (calendar = "mayanLongCount" /\ start = "absolute" /\ steps \in {1, 2})
        => /\ date.Katun \in 0..19
           /\ date.Tun \in 0..19
           /\ date.Kin \in 0..19
           /\ date.Uinal \in 0..17
           /\ steps = 2 => absolute = orig

\* the day before the Mayan epoch has made the round trip
RoundTripMayanLongCountWitness ==
    /\ calendar = "mayanLongCount"
    /\ start = "absolute"
    /\ steps = 2
    /\ orig = -1137143
    /\ date = MayanLongCount(-1, 19, 19, 17, 19)
    /\ absolute = orig

(***************************************************************************)
(* Order of dates and order of absolute dates.                             *)
(***************************************************************************)
\* (year, month, day) of d1 is lexicographically smaller than that of d2
LexLess(d1, d2) ==
    \/ d1.Year < d2.Year
    \/ d1.Year = d2.Year /\ d1.Month < d2.Month
    \/ d1.Year = d2.Year /\ d1.Month = d2.Month /\ d1.Day < d2.Day

\* The dates a date d1 is paired with: the day before and the day after it
\* in its month, the first and the last day of every month of its year, and
\* the first and the last day of the months edge(y) of every year y of the
\* window.
PairedWith(d1, years, months(_), edge(_), lastDay(_, _)) ==
    LET ends(y, ms) == UNION {{[Year |-> y, Month |-> m, Day |-> d]
                                 : d \in {1, lastDay(m, y)}} : m \in ms}
    IN  ({[Year |-> d1.Year, Month |-> d1.Month, Day |-> d]
             : d \in {d1.Day - 1, d1.Day + 1} \cap 1..lastDay(d1.Month, d1.Year)}
         \cup ends(d1.Year, months(d1.Year))
         \cup UNION {ends(y, edge(y)) : y \in years}) \ {d1}

Pairs(years, months(_), edge(_), lastDay(_, _)) ==
    UNION {{<<d1, d2>> : d2 \in PairedWith(d1, years, months, edge, lastDay)}
              : d1 \in ValidDates(years, months, lastDay)}

InitMonotone ==
    \/ InitPair("gregorian", Pairs(YearWindows({1999}), LAMBDA y : 1..12,
                                   LAMBDA y : {1, 12}, LastDayOfGregorianMonth))
    \/ InitPair("julian", Pairs(YearWindows({99}), LAMBDA y : 1..12,
                                LAMBDA y : {1, 12}, LastDayOfJulianMonth))
    \/ InitPair("islamic", Pairs(YearWindows({2}), LAMBDA y : 1..12,
                                 LAMBDA y : {1, 12}, LastDayOfIslamicMonth))
    \/ InitPair("french", Pairs(YearWindows({19}), LAMBDA y : 1..13,
                                LAMBDA y : {1, 13}, FrenchLastDayOfMonth))

NextMonotone ==
    \/ CallAbsoluteFromGregorian
    \/ CallAbsoluteFromJulian
    \/ CallAbsoluteFromIslamic
    \/ CallAbsoluteFromFrench

SpecMonotone == InitMonotone /\ [][NextMonotone]_vars

\* C8: for the Gregorian, Julian, Islamic and French calendars, of two valid
\* dates the lexicographically smaller has the smaller absolute date.
MonotoneAbsolute ==
    (calendar \in {"gregorian", "julian", "islamic", "french"}
        /\ start = "pair" /\ steps = 1 /\ LexLess(date, date2))
        => absolute < absolute2

\* the last day of the Islamic leap year 2 and the first day of year 3
MonotoneAbsoluteWitness ==
    /\ calendar = "islamic"
    /\ start = "pair"
    /\ steps = 1
    /\ date = IslamicDate(2, 12, 30)
    /\ date2 = IslamicDate(3, 1, 1)
    /\ absolute + 1 = absolute2

(***************************************************************************)
(* Order of Hebrew dates.                                                  *)
(***************************************************************************)
InitHebrewOrder ==
    InitPair("hebrew", Pairs(YearWindows({5782}),
                             LAMBDA y : 1..LastMonthOfHebrewYear(y),
                             LAMBDA y : {1, 6, 7, LastMonthOfHebrewYear(y)},
                             LastDayOfHebrewMonth))

NextHebrewOrder == CallAbsoluteFromHebrew

SpecHebrewOrder == InitHebrewOrder /\ [][NextHebrewOrder]_vars

\* C9 as stated: of two valid Hebrew dates the one with the lexicographically
\* smaller (year, month, day) has the smaller absolute date.
HebrewLexMonotone ==
    (calendar = "hebrew" /\ start = "pair" /\ steps = 1 /\ LexLess(date, date2))
        => absolute < absolute2

\* the place of a month in the Hebrew year, which begins with Tishri (7)
HebrewMonthOrder(d) ==
    IF d.Month >= 7 THEN d.Month - 6 ELSE d.Month + LastMonthOfHebrewYear(d.Year) - 6

\* (year, place of the month in the year, day) of d1 is smaller than of d2
HebrewCivilLess(d1, d2) ==
    \/ d1.Year < d2.Year
    \/ d1.Year = d2.Year /\ HebrewMonthOrder(d1) < HebrewMonthOrder(d2)
    \/ d1.Year = d2.Year /\ d1.Month = d2.Month /\ d1.Day < d2.Day

\* C9 amended: of two valid Hebrew dates the one that is smaller in the order
\* (year, place of the month counted from Tishri, day) has the smaller
\* absolute date.
HebrewCivilMonotone ==
    (calendar = "hebrew" /\ start = "pair" /\ steps = 1 /\ HebrewCivilLess(date, date2))
        => absolute < absolute2

\* 1 Tishri precedes 1 Nisan of the same year, against the month numbers
HebrewCivilMonotoneWitness ==
    /\ calendar = "hebrew"
    /\ start = "pair"
    /\ steps = 1
    /\ date = HebrewDate(5782, 7, 1)
    /\ date2 = HebrewDate(5782, 1, 1)
    /\ absolute < absolute2

(***************************************************************************)
(* The epoch guards of the Islamic and the French calendar.                *)
(***************************************************************************)
InitEpochGuard ==
    \/ InitAbsolute("islamic", DayWindows({-210, 226805, 738000}))
    \/ InitAbsolute("french", DayWindows({-210, 654205, 738000}))

NextEpochGuard ==
    \/ CallIslamicFromAbsolute
    \/ CallFrenchFromAbsolute

SpecEpochGuard == InitEpochGuard /\ [][NextEpochGuard]_vars

ZeroDate == [Year |-> 0, Month |-> 0, Day |-> 0]

\* C10: IslamicFromAbsolute(n) is the all-zero date exactly when n <= 227014
\* and FrenchFromAbsolute(n) exactly when n < 654415; every later n gives a
\* date with year, month and day at least 1, the first one the date (1, 1, 1).
EpochGuard ==
    (calendar \in {"islamic", "french"} /\ start = "absolute" /\ steps = 1)
        => LET epoch == IF calendar = "islamic" THEN 227015 ELSE 654415
           IN  /\ date = ZeroDate <=> orig < epoch
               /\ orig >= epoch => date.Year >= 1 /\ date.Month >= 1 /\ date.Day >= 1
               /\ orig = epoch => date = [Year |-> 1, Month |-> 1, Day |-> 1]

\* the first day of the Islamic calendar has been converted
EpochGuardWitness ==
    /\ calendar = "islamic"
    /\ start = "absolute"
    /\ steps = 1
    /\ orig = 227015
    /\ date = IslamicDate(1, 1, 1)

(***************************************************************************)
(* Old Hindu solar round trips.                                            *)
(***************************************************************************)
InitOldHinduSolar == InitAbsolute("oldHinduSolar", DayWindows({1, 300000, 738000}))

NextOldHinduSolar ==
    \/ CallOldHinduSolarFromAbsolute
    \/ CallAbsoluteFromOldHinduSolar

SpecOldHinduSolar == InitOldHinduSolar /\ [][NextOldHinduSolar]_vars

InitOldHinduLunar ==
    InitAbsolute("oldHinduLunar", LunarWindows({1, 66, 952, 968, 981, 738316}))

NextOldHinduLunar ==
    \/ CallOldHinduLunarFromAbsolute
    \/ CallAbsoluteFromOldHinduLunar

SpecOldHinduLunar == InitOldHinduLunar /\ [][NextOldHinduLunar]_vars

\* C6: for an absolute date n >= 1 the search of AbsoluteFromOldHinduLunar
\* for the date OldHinduLunarFromAbsolute(n) starts at or before n and ends
\* at n: the result is n and never NaN.
RoundTripOldHinduLunar ==
    (calendar = "oldHinduLunar" /\ start = "absolute" /\ steps \in {1, 2})
        => /\ OldHinduLunarApprox(date) <= orig
           /\ steps = 2 => ~nan /\ absolute = orig

\* the first day of a leap month has made the round trip
RoundTripOldHinduLunarWitness ==
    /\ calendar = "oldHinduLunar"
    /\ start = "absolute"
    /\ steps = 2
    /\ orig = 957
    /\ date = OldHinduLunarDate(3104, 7, TRUE, 1)
    /\ ~nan
    /\ absolute = orig

(***************************************************************************)
(* Epoch anchors.                                                          *)
(***************************************************************************)
AnchorYears == YearWindows({1, 2022})

AnchorLongCounts ==
    {MayanLongCount(b, 0, 0, u, n) : b \in {0, 13}, u \in 0..YearSpan, n \in 0..19}

InitAnchors ==
    \/ InitDate("gregorian",
                ValidDates(AnchorYears, LAMBDA y : 1..12, LastDayOfGregorianMonth))
    \/ InitDate("julian",
                ValidDates(AnchorYears, LAMBDA y : 1..12, LastDayOfJulianMonth))
    \/ InitDate("islamic",
                ValidDates(AnchorYears, LAMBDA y : 1..12, LastDayOfIslamicMonth))
    \/ InitDate("mayanLongCount", AnchorLongCounts)

NextAnchors ==
    \/ CallAbsoluteFromGregorian
    \/ CallAbsoluteFromJulian
    \/ CallAbsoluteFromIslamic
    \/ CallAbsoluteFromMayanLongCount

SpecAnchors == InitAnchors /\ [][NextAnchors]_vars

\* C11: the epoch anchors: Gregorian 1/1/1 is absolute date 1, Gregorian
\* 15 June 2022 is 738321, Julian 1/1/1 is -1, Islamic 1/1/1 is 227015 and
\* the Mayan long count 0.0.0.0.0 is -MayanDaysBeforeAbsoluteZero = -1137142.
EpochAnchors ==
    (start = "date" /\ steps = 1) =>
        /\ (calendar = "gregorian" /\ date = GregorianDate(1, 1, 1)) => absolute = 1
        /\ (calendar = "gregorian" /\ date = GregorianDate(2022, 6, 15))
               => absolute = 738321
        /\ (calendar = "julian" /\ date = JulianDate(1, 1, 1)) => absolute = -1
        /\ (calendar = "islamic" /\ date = IslamicDate(1, 1, 1)) => absolute = 227015
        /\ (calendar = "mayanLongCount" /\ date = MayanLongCount(0, 0, 0, 0, 0))
               => /\ absolute = -1137142
                  /\ absolute = -MayanDaysBeforeAbsoluteZero

\* the first day of the Julian calendar has been converted
EpochAnchorsWitness ==
    /\ calendar = "julian"
    /\ start = "date"
    /\ steps = 1
    /\ date = JulianDate(1, 1, 1)
    /\ absolute = -1

(***************************************************************************)
(* The haab and tzolkin differences.                                       *)
(***************************************************************************)
\* each window of first absolute dates is anchor .. anchor + StartSpan
StartSpan == 3

StartWindows(anchors) == UNION {a..(a + StartSpan) : a \in anchors}

CycleStarts == StartWindows({-1137145, -2, 738319})

InitHaabDifference == InitSpan("mayanHaab", CycleStarts, DayWindows({0}))

NextHaabDifference ==
    \/ CallMayanHaabFromAbsoluteTwice
    \/ CallMayanHaabDifference

SpecHaabDifference == InitHaabDifference /\ [][NextHaabDifference]_vars

\* C14: the haab difference from the haab date of an absolute date d to the
\* haab date of d + k, k >= 0, is k mod 365 (0 for k = 365).
HaabDifferenceInCycle ==
    (calendar = "mayanHaab" /\ start = "span" /\ steps = 2)
        => daysBetween = mod(absolute2 - absolute, 365)

InitTzolkinDifference == InitSpan("mayanTzolkin", CycleStarts, DayWindows({0}))

NextTzolkinDifference ==
    \/ CallMayanTzolkinFromAbsoluteTwice
    \/ CallMayanTzolkinDifference

SpecTzolkinDifference == InitTzolkinDifference /\ [][NextTzolkinDifference]_vars

\* C15: the tzolkin difference from the tzolkin date of an absolute date d to
\* the tzolkin date of d + k, k >= 0, is k mod 260 (0 for k = 260).
TzolkinDifferenceInCycle ==
    (calendar = "mayanTzolkin" /\ start = "span" /\ steps = 2)
        => daysBetween = mod(absolute2 - absolute, 260)

\* the difference over a whole cycle of 260 days is 0
TzolkinDifferenceInCycleWitness ==
    /\ calendar = "mayanTzolkin"
    /\ start = "span"
    /\ steps = 2
    /\ absolute = 738321
    /\ absolute2 = absolute + 260
    /\ date2 = date
    /\ daysBetween = 0

(***************************************************************************)
(* The searches for a haab date and for a haab and a tzolkin date.         *)
(***************************************************************************)
\* the 365 haab dates: 18 months of 20 days and the 5 days of month 19
HaabDates ==
    {MayanHaabDate(d, m) : d \in 0..19, m \in 1..18}
        \cup {MayanHaabDate(d, 19) : d \in 0..4}

\* the 260 tzolkin dates
TzolkinDates == {MayanTzolkinDate(n, m) : n \in 1..13, m \in 1..20}

\* the haab dates of the months the searches for both dates are given
SearchedHaabDates == {h \in HaabDates : h.Month \in {1, 8, 18, 19}}

\* the days after which a haab date and a tzolkin date recur together
HaabTzolkinCycle == 18980

\* the pairs of a haab date and a tzolkin date that some absolute date carries
OccurTogether ==
    {<<MayanHaabFromAbsolute(n), MayanTzolkinFromAbsolute(n)>> :
        n \in 0..(HaabTzolkinCycle - 1)}

SearchStarts == StartWindows({-1137145, -2, 738319})

InitHaabTzolkinSearch ==
    InitSearch("mayanHaabTzolkin", SearchedHaabDates, TzolkinDates, StartWindows({0}))

NextHaabTzolkinSearch == CallMayanHaabTzolkinOnOrBefore

SpecHaabTzolkinSearch == InitHaabTzolkinSearch /\ [][NextHaabTzolkinSearch]_vars

\* C12: MayanHaabTzolkinOnOrBefore returns NaN exactly for the pairs of a
\* haab date and a tzolkin date that no absolute date carries together, and
\* a number for every pair that some absolute date carries.
NaNExactlyWhenNeverTogether ==
    (calendar = "mayanHaabTzolkin" /\ start = "search" /\ steps = 1)
        => (nan <=> <<date, date2>> \notin OccurTogether)

\* C13: a number r returned by MayanHaabTzolkinOnOrBefore(haab, tzolkin, d) is
\* the latest absolute date on or before d carrying both dates: r <= d,
\* d - r < 18980, the haab date of r is haab and the tzolkin date of r is
\* tzolkin; searching from n for the two dates of n returns n.
LatestWithBothOnOrBefore ==
    (calendar = "mayanHaabTzolkin" /\ start = "search" /\ steps = 1)
        => /\ ~nan => /\ absolute2 <= absolute
                      /\ absolute - absolute2 < HaabTzolkinCycle
                      /\ MayanHaabFromAbsolute(absolute2) = date
                      /\ MayanTzolkinFromAbsolute(absolute2) = date2
           /\ (/\ date = MayanHaabFromAbsolute(absolute)
               /\ date2 = MayanTzolkinFromAbsolute(absolute))
                  => ~nan /\ absolute2 = absolute

InitHaabSearch == InitSearch("mayanHaab", HaabDates, {None}, SearchStarts)

NextHaabSearch == CallMayanHaabOnOrBefore

SpecHaabSearch == InitHaabSearch /\ [][NextHaabSearch]_vars

\* C16: MayanHaabOnOrBefore(haab, d) is the latest absolute date r <= d whose
\* haab date is haab: d - r is in 0..364 and the haab date of r is haab;
\* searching from d for the haab date of d returns d.
LatestHaabOnOrBefore ==
    (calendar = "mayanHaab" /\ start = "search" /\ steps = 1)
        => /\ absolute - absolute2 \in 0..364
           /\ MayanHaabFromAbsolute(absolute2) = date
           /\ date = MayanHaabFromAbsolute(absolute) => absolute2 = absolute

(***************************************************************************)
(* The ranges of the haab and tzolkin dates.                               *)
(***************************************************************************)
CycleDays == DayWindows({-1137352, -210, 738000})

InitHaabTzolkinRanges ==
    \/ InitAbsolute("mayanHaab", CycleDays)
    \/ InitAbsolute("mayanTzolkin", CycleDays)

NextHaabTzolkinRanges ==
    \/ CallMayanHaabFromAbsolute
    \/ CallMayanTzolkinFromAbsolute

SpecHaabTzolkinRanges == InitHaabTzolkinRanges /\ [][NextHaabTzolkinRanges]_vars

TzolkinInRange ==
    (calendar = "mayanTzolkin" /\ start = "absolute" /\ steps = 1)
        => date.Number \in 1..13 /\ date.Name \in 1..20

\* C17 as stated: the haab date of every absolute date has its day in 0..19
\* and its month in 1..18, and the tzolkin date has its number in 1..13 and
\* its name in 1..20.
HaabMonthUpTo18 ==
    /\ (calendar = "mayanHaab" /\ start = "absolute" /\ steps = 1)
           => date.Day \in 0..19 /\ date.Month \in 1..18
    /\ TzolkinInRange

\* C17: the haab date of every absolute date has its day in 0..19 and its
\* month in 1..19, month 19 holding the five days 0..4 that end the cycle of
\* 365 days, and the tzolkin date has its number in 1..13 and its name in
\* 1..20.
HaabMonthUpTo19 ==
    /\ (calendar = "mayanHaab" /\ start = "absolute" /\ steps = 1)
           => /\ date.Day \in 0..19
              /\ date.Month \in 1..19
              /\ date.Month = 19 => date.Day \in 0..4
    /\ TzolkinInRange

\* the last of the five days of month 19
HaabMonthUpTo19Witness ==
    /\ calendar = "mayanHaab"
    /\ start = "absolute"
    /\ steps = 1
    /\ date = MayanHaabDate(4, 19)

(***************************************************************************)
(* Leap years.                                                             *)
(***************************************************************************)
\* each window of years of the leap year tests is anchor .. anchor + CycleSpan
CycleSpan == 400

CycleWindows(anchors) == UNION {a..(a + CycleSpan) : a \in anchors}

InitLeapYears ==
    \/ InitYear("gregorian", CycleWindows({1, 1700}))
    \/ InitYear("hebrew", CycleWindows({1, 5700}))
    \/ InitYear("islamic", CycleWindows({1, 1400}))

NextLeapYears ==
    \/ CallLastDayOfGregorianMonth
    \/ CallHebrewLeapYear
    \/ CallIslamicLeapYear

SpecLeapYears == InitLeapYears /\ [][NextLeapYears]_vars

\* C18: February of Gregorian year y has 29 days exactly when y is divisible
\* by 4 and not by 100, or by 400 (2000 and 2024 leap, 1900 not); Hebrew year
\* y is leap exactly when y mod 19 is in {0, 3, 6, 8, 11, 14, 17}; Islamic year
\* y is leap exactly when y mod 30 is in {2, 5, 7, 10, 13, 16, 18, 21, 24, 26, 29}.
LeapYearTables ==
    (start = "year" /\ steps = 1) =>
        /\ calendar = "gregorian" =>
              /\ leap <=> (orig % 4 = 0 /\ (orig % 100 # 0 \/ orig % 400 = 0))
              /\ orig \in {2000, 2024} => leap
              /\ orig = 1900 => ~leap
        /\ calendar = "hebrew" => (leap <=> orig % 19 \in {0, 3, 6, 8, 11, 14, 17})
        /\ calendar = "islamic" =>
              (leap <=> orig % 30 \in {2, 5, 7, 10, 13, 16, 18, 21, 24, 26, 29})

\* the Gregorian year 1900, divisible by 100 and not by 400, is not leap
LeapYearTablesWitness ==
    /\ calendar = "gregorian"
    /\ start = "year"
    /\ steps = 1
    /\ orig = 1900
    /\ leap = FALSE

InitFrenchLeapYears == InitYear("french", CycleWindows({1, 3700}))

NextFrenchLeapYears == CallFrenchLeapYear

SpecFrenchLeapYears == InitFrenchLeapYears /\ [][NextFrenchLeapYears]_vars

\* the rule of the years after 20
FrenchLeapYearRule ==
    (calendar = "french" /\ start = "year" /\ steps = 1 /\ orig > 20)
        => (leap <=> /\ orig % 4 = 0
                     /\ orig % 400 \notin {100, 200, 300}
                     /\ orig % 4000 # 0)

\* C19 as stated: FrenchLeapYear is true for years 3, 7 and 11, false for
\* years 15 and 20 and for every other year <= 20, and follows the rule for
\* the years after 20.
FrenchLeapYearsWithout15And20 ==
    /\ (calendar = "french" /\ start = "year" /\ steps = 1 /\ orig <= 20)
           => (leap <=> orig \in {3, 7, 11})
    /\ FrenchLeapYearRule

\* C19: FrenchLeapYear is true for years 3, 7, 11, 15 and 20, false for every
\* other year <= 20, and for a year > 20 true exactly when the year is
\* divisible by 4, its remainder mod 400 is not 100, 200 or 300, and it is not
\* divisible by 4000.
FrenchLeapYearsWith15And20 ==
    /\ (calendar = "french" /\ start = "year" /\ steps = 1 /\ orig <= 20)
           => (leap <=> orig \in {3, 7, 11, 15, 20})
    /\ FrenchLeapYearRule

\* year 15 is a leap year
FrenchLeapYearsWith15And20Witness ==
    /\ calendar = "french"
    /\ start = "year"
    /\ steps = 1
    /\ orig = 15
    /\ leap = TRUE

(***************************************************************************)
(* Names that are not the name of a calendar.                              *)
(***************************************************************************)
CalendarNames ==
    {"gregorian", "iso", "julian", "islamic", "hebrew", "mayanLongCount",
     "mayanHaab", "mayanTzolkin", "french", "oldHinduSolar", "oldHinduLunar"}

OtherNames ==
    {"", "Gregorian", "GREGORIAN", "gregorian ", "Iso", "ISO", "mayan", "maya",
     "mayanlongcount", "hinduSolar", "oldHinduSolar2", "chinese", "default"}

NamedDays == StartWindows({1, 738319})

\* the components of a Date: five numbers, of which each calendar reads the
\* first two, three or five
NamedComponents == {<<y, m, d, 0, 0>> : y \in {1, 5}, m \in 1..2, d \in 1..2}

InitNames ==
    \/ InitNamed("FromAbsolute", CalendarNames \cup OtherNames, NamedDays)
    \/ InitNamed("DateFromAbsolute", CalendarNames \cup OtherNames, NamedDays)
    \/ InitNamedDate("AbsoluteFromDate", CalendarNames \cup OtherNames, NamedComponents)

NextNames ==
    \/ CallFromAbsolute
    \/ CallDateFromAbsolute
    \/ CallAbsoluteFromDate

SpecNames == InitNames /\ [][NextNames]_vars

\* C20: for a name that is not exactly one of the eleven names of the
\* calendars, FromAbsolute returns the empty string, DateFromAbsolute the
\* empty Date{} and AbsoluteFromDate NaN: none of them converts as if the
\* name were that of some calendar.
OtherNamesGiveNothing ==
    (calendar \notin CalendarNames /\ steps = 1) =>
        /\ start = "FromAbsolute" => date = ""
        /\ start = "DateFromAbsolute" => date = EmptyDate
        /\ start = "AbsoluteFromDate" => nan

\* the name of a calendar with a capital letter has been given to each of
\* the three functions; this is the call of FromAbsolute
OtherNamesGiveNothingWitness ==
    /\ calendar = "Gregorian"
    /\ start = "FromAbsolute"
    /\ steps = 1
    /\ absolute = 738321
    /\ date = ""

(***************************************************************************)
(* Round trips through the Date record.                                    *)
(***************************************************************************)
ConvertibleNames ==
    {"gregorian", "iso", "julian", "islamic", "hebrew", "mayanLongCount",
     "french", "oldHinduSolar", "oldHinduLunar"}

\* absolute dates after the epochs of all nine calendars
RoundTripDays == StartWindows({654415, 700000, 738319})

\* absolute dates of the Old Hindu lunar calendar around the leap month that
\* begins on absolute date 957
LeapMonthDays == LunarWindows({952})

InitDateRoundTrip ==
    \/ InitNamed("DateRoundTrip", ConvertibleNames, RoundTripDays)
    \/ InitNamed("DateRoundTrip", {"oldHinduLunar"}, LeapMonthDays)

NextDateRoundTrip ==
    \/ CallDateFromAbsoluteOfTag
    \/ CallAbsoluteFromDateOfDate

SpecDateRoundTrip == InitDateRoundTrip /\ [][NextDateRoundTrip]_vars

\* C21: for each of the nine calendars that AbsoluteFromDate converts and
\* every absolute date n in the domain of the calendar,
\* AbsoluteFromDate(DateFromAbsolute(n, t)) is n: the Date record loses
\* nothing the conversion to the absolute date needs.
DateRoundTrip ==
    (start = "DateRoundTrip" /\ steps = 2) => ~nan /\ absolute = orig

(***************************************************************************)
(* The helpers for *big.Rat in memory.  A *big.Rat is an address <<k, i>>: *)
(* the i-th big.Rat allocated by goroutine k, those of the package         *)
(* variables being allocated by the initialisation of the package, k = 0.  *)
(* rats[k][i] is the value at that address.  A helper runs as a frame of a *)
(* stack: the name of the helper, the place ip in its body and the         *)
(* addresses its parameters and local variables hold.  One step is one     *)
(* allocation, one method of big.Rat on a receiver, or one call or return. *)
(*   rats      the values of the *big.Rat allocated so far                 *)
(*   callers   for each goroutine that calls the helpers: its stack, the   *)
(*             address t of the moment it computes with, the address the   *)
(*             last helper returned to it, and the number of its calls     *)
(***************************************************************************)
callVars ==
    <<calendar, start, orig, date, absolute, nan, steps, date2, absolute2,
      daysBetween, leap, jsonVars>>

\* var SolarSiderealYear, SolarMonth, LunarSiderealMonth, LunarSynodicMonth
SharedRats == <<SolarSiderealYear, SolarMonth, LunarSiderealMonth, LunarSynodicMonth>>

Shared == {<<0, i>> : i \in DOMAIN SharedRats}

AddressOf(v) == CHOOSE a \in Shared : SharedRats[a[2]] = v

Nil == <<0, 0>>

Registers == {"x", "y", "z", "q", "f", "p", "r", "o", "s", "m"}

Instruction(op, z, f, x, y) == [op |-> op, z |-> z, f |-> f, x |-> x, y |-> y]

\* z := big.NewRat(a, b); &big.Rat{} is the value 0/1
NewRatInto(z, a, b) == Instruction("NewRat", z, "", a, b)
\* z.Add(x, y), z.Sub(x, y), z.Mul(x, y), z.Quo(x, y)
Method(op, z, x, y) == Instruction(op, z, "", x, y)
\* z := f(x, y)
CallInto(z, f, x, y) == Instruction("call", z, f, x, y)
\* return z
Return(z) == Instruction("return", z, "", z, z)

\* func add(x ...*big.Rat) *big.Rat, called with two arguments
addBody ==
    <<NewRatInto("z", 0, 1),
      Method("Add", "z", "z", "x"),
      Method("Add", "z", "z", "y"),
      Return("z")>>

subBody == <<NewRatInto("z", 0, 1), Method("Sub", "z", "x", "y"), Return("z")>>

\* a body that multiplies into its first argument instead of a new big.Rat
multIntoArgument == <<Method("Mul", "x", "x", "y"), Return("x")>>

\* func mult(x ...*big.Rat) *big.Rat, called with two arguments
multBody ==
    <<NewRatInto("z", 1, 1),
      Method("Mul", "z", "z", "x"),
      Method("Mul", "z", "z", "y"),
      Return("z")>>

divBody == <<NewRatInto("z", 0, 1), Method("Quo", "z", "x", "y"), Return("z")>>

\* return big.NewRat(int64(floorf(x)), 1)
floorBody == <<Instruction("floor", "z", "", "x", "x"), Return("z")>>

\* r := sub(a, mult(b, floor(div(a, b)))); if r.Cmp(big.NewRat(0, 1)) < 0
\* { return add(r, b) } else { return r }, with a in x and b in y; the Cmp
\* goes on to the next instruction when it is negative and to Return("r")
\* when it is not
modrBody ==
    <<CallInto("q", "div", "x", "y"),
      CallInto("f", "floor", "q", "q"),
      CallInto("p", "mult", "y", "f"),
      CallInto("r", "sub", "x", "p"),
      NewRatInto("o", 0, 1),
      Instruction("Cmp", "r", "", "r", "o"),
      CallInto("s", "add", "r", "y"),
      Return("s"),
      Return("r")>>

\* return sub(t, modr(t, LunarSynodicMonth)), with t in x
NewMoonBody ==
    <<Instruction("global", "y", "", AddressOf(LunarSynodicMonth), Nil),
      CallInto("m", "modr", "x", "y"),
      CallInto("z", "sub", "x", "m"),
      Return("z")>>

Body(f) ==
    CASE f = "add" -> addBody
      [] f = "sub" -> subBody
      [] f = "mult" -> multBody
      [] f = "div" -> divBody
      [] f = "floor" -> floorBody
      [] f = "modr" -> modrBody
      [] f = "NewMoon" -> NewMoonBody

Frame(f, x, y) ==
    [helper |-> f,
     ip |-> 1,
     regs |-> [r \in Registers |-> IF r = "x" THEN x ELSE IF r = "y" THEN y ELSE Nil]]

Running(c) == callers[c].stack # <<>>

Top(c) == callers[c].stack[Len(callers[c].stack)]

Current(c) == Body(Top(c).helper)[Top(c).ip]

\* the value at the address that register r of the running helper holds
ValueOf(c, r) == rats[Top(c).regs[r][1]][Top(c).regs[r][2]]

\* the frame on top of the stack of c becomes frame
WithTop(c, frame) ==
    [callers EXCEPT ![c].stack = [@ EXCEPT ![Len(@)] = frame]]

\* the frame on top goes to the next instruction with register z holding a
Assigned(c, z, a) ==
    WithTop(c, [Top(c) EXCEPT !.ip = @ + 1, !.regs = [@ EXCEPT ![z] = a]])

\* the value a method of big.Rat leaves in its receiver
MethodValue(op, x, y) ==
    CASE op = "Add" -> RatAdd[x, y]
      [] op = "Sub" -> RatAdd[x, RatNeg[y]]
      [] op = "Mul" -> RatMul[x, y]
      [] op = "Quo" -> RatQuo[x, y]

\* the value of floor(x): big.NewRat(int64(floorf(x)), 1), computed without
\* passing through a machine integer, for values up to 2^53
FloorValue(x) == Rat(BigFloorDiv[x.num, x.den], MagFromNat(1))

\* total number of calls the callers may make
MaxCalls == 2

\* the calls of the library that pass a package variable, and sub, floor and
\* NewMoon, which are called with moments only (y = Nil: the moment t of the
\* caller)
HelperCalls ==
    {[f |-> "add", y |-> AddressOf(LunarSynodicMonth)],
     [f |-> "mult", y |-> AddressOf(SolarSiderealYear)],
     [f |-> "div", y |-> AddressOf(SolarSiderealYear)],
     [f |-> "div", y |-> AddressOf(LunarSiderealMonth)],
     [f |-> "modr", y |-> AddressOf(SolarMonth)],
     [f |-> "sub", y |-> Nil],
     [f |-> "floor", y |-> Nil],
     [f |-> "NewMoon", y |-> Nil]}

\* a goroutine calls a helper with its moment t, or with what the last
\* helper returned to it, and a package variable
CallHelper(c) ==
    /\ ~Running(c)
    /\ \A d \in DOMAIN callers : d # c => callers[c].calls + callers[d].calls < MaxCalls
    /\ \E call \in HelperCalls, x \in {callers[c].t, callers[c].returned} \ {Nil} :
         callers' = [callers EXCEPT ![c].stack =
                                        <<Frame(call.f, x,
                                                IF call.y = Nil THEN callers[c].t
                                                ELSE call.y)>>,
                                    ![c].calls = @ + 1]
    /\ UNCHANGED <<rats, callVars>>

\* big.NewRat, &big.Rat{}: a new address
Allocate(c) ==
    /\ Running(c)
    /\ Current(c).op \in {"NewRat", "floor"}
    /\ rats' = [rats EXCEPT ![c] =
                    Append(@, IF Current(c).op = "NewRat"
                              THEN NewRat(Current(c).x, Current(c).y)
                              ELSE FloorValue(ValueOf(c, Current(c).x)))]
    /\ callers' = Assigned(c, Current(c).z, <<c, Len(rats[c]) + 1>>)
    /\ UNCHANGED callVars

\* the address of a package variable
ReadGlobal(c) ==
    /\ Running(c)
    /\ Current(c).op = "global"
    /\ callers' = Assigned(c, Current(c).z, Current(c).x)
    /\ UNCHANGED <<rats, callVars>>

\* z.Add(x, y), ...: the receiver is written
CallMethod(c) ==
    /\ Running(c)
    /\ Current(c).op \in {"Add", "Sub", "Mul", "Quo"}
    /\ LET z == Top(c).regs[Current(c).z]
       IN  rats' = [rats EXCEPT ![z[1]][z[2]] =
                       MethodValue(Current(c).op, ValueOf(c, Current(c).x),
                                   ValueOf(c, Current(c).y))]
    /\ callers' = WithTop(c, [Top(c) EXCEPT !.ip = @ + 1])
    /\ UNCHANGED callVars

\* r.Cmp(o) < 0
Compare(c) ==
    /\ Running(c)
    /\ Current(c).op = "Cmp"
    /\ callers' =
         WithTop(c, [Top(c) EXCEPT !.ip =
                        IF RatSign[sub[ValueOf(c, Current(c).x), ValueOf(c, Current(c).y)]] < 0
                        THEN @ + 1 ELSE @ + 3])
    /\ UNCHANGED <<rats, callVars>>

\* a helper calls a helper
CallNested(c) ==
    /\ Running(c)
    /\ Current(c).op = "call"
    /\ callers' = [callers EXCEPT ![c].stack =
                      Append(@, Frame(Current(c).f,
                                      Top(c).regs[Current(c).x],
                                      Top(c).regs[Current(c).y]))]
    /\ UNCHANGED <<rats, callVars>>

\* a helper returns to the helper that called it, which assigns the result
ReturnNested(c) ==
    /\ Running(c)
    /\ Len(callers[c].stack) > 1
    /\ Current(c).op = "return"
    /\ LET below == callers[c].stack[Len(callers[c].stack) - 1]
           into == Body(below.helper)[below.ip].z
           value == Top(c).regs[Current(c).z]
       IN  callers' = [callers EXCEPT ![c].stack =
                          Append(SubSeq(@, 1, Len(@) - 2),
                                 [below EXCEPT !.ip = @ + 1,
                                               !.regs = [@ EXCEPT ![into] = value]])]
    /\ UNCHANGED <<rats, callVars>>

\* a helper returns to the goroutine
ReturnHelper(c) ==
    /\ Running(c)
    /\ Len(callers[c].stack) = 1
    /\ Current(c).op = "return"
    /\ callers' = [callers EXCEPT ![c].stack = <<>>,
                                  ![c].returned = Top(c).regs[Current(c).z]]
    /\ UNCHANGED <<rats, callVars>>

(***************************************************************************)
(* The package variables under concurrent callers.                         *)
(***************************************************************************)
\* hdate + 1/4 of OldHinduLunarFromAbsolute
Sunrise(absoluteDate) == add[<<NewRat(absoluteDate + 1132959, 1), NewRat(1, 4)>>]

Goroutines == {1, 2}

\* the absolute dates whose sunrise the goroutines compute with
SunriseDays == <<1, 738321>>

InitSharedRats ==
    /\ rats = [k \in {0} \cup Goroutines |->
                  IF k = 0 THEN SharedRats ELSE <<Sunrise(SunriseDays[k])>>]
    /\ callers = [c \in Goroutines |->
                    [stack |-> <<>>, t |-> <<c, 1>>, returned |-> Nil, calls |-> 0]]
    /\ calendar = None
    /\ start = None
    /\ orig = None
    /\ date = None
    /\ absolute = None
    /\ nan = FALSE
    /\ steps = 0
    /\ date2 = None
    /\ absolute2 = None
    /\ daysBetween = None
    /\ leap = None
    /\ NoJson

NextSharedRats ==
    \E c \in Goroutines :
        \/ CallHelper(c)
        \/ Allocate(c)
        \/ ReadGlobal(c)
        \/ CallMethod(c)
        \/ Compare(c)
        \/ CallNested(c)
        \/ ReturnNested(c)
        \/ ReturnHelper(c)

SpecSharedRats == InitSharedRats /\ [][NextSharedRats]_vars

\* C22: after any calls of the helpers add, sub, mult, div, floor, modr and
\* NewMoon by concurrent callers, interleaved in any way, the package
\* variables SolarSiderealYear, SolarMonth, LunarSiderealMonth and
\* LunarSynodicMonth hold their initial values, and what a helper returns is
\* an address allocated during the call, never one of its arguments.
SharedRatsUnchanged ==
    /\ rats[0] = SharedRats
    /\ \A c \in Goroutines :
         (Running(c) /\ Current(c).op = "return") =>
             LET returned == Top(c).regs[Current(c).z]
             IN  /\ returned \notin Shared
                 /\ returned \notin {Top(c).regs["x"], Top(c).regs["y"]}
                 /\ returned # callers[c].t

\* one goroutine is about to return from NewMoon while the other is in the
\* middle of modr with SolarMonth
SharedRatsUnchangedWitness ==
    /\ Running(1)
    /\ Len(callers[1].stack) = 1
    /\ Top(1).helper = "NewMoon"
    /\ Current(1).op = "return"
    /\ Running(2)
    /\ callers[2].stack[1].helper = "modr"
    /\ callers[2].stack[1].regs["y"] = AddressOf(SolarMonth)
    /\ Len(callers[2].stack) = 2

(***************************************************************************)
(* Easter.                                                                 *)
(***************************************************************************)
EasterYears == YearWindows({1, 1582}) \cup CycleWindows({1900})

InitEaster == InitYear("easter", EasterYears)

NextEaster == CallEaster

SpecEaster == InitEaster /\ [][NextEaster]_vars

\* C23: for every Gregorian year y, Easter(y) is a Sunday (an absolute date
\* that is 0 mod 7) from 22 March to 25 April of year y, and it is the first
\* Sunday strictly after the paschal full moon
\* AbsoluteFromGregorian({y, 4, 19}) - adjustedEpact.
EasterSunday ==
    (calendar = "easter" /\ steps = 1) =>
        /\ absolute % 7 = 0
        /\ AbsoluteFromGregorian(GregorianDate(orig, march, 22)) <= absolute
        /\ absolute <= AbsoluteFromGregorian(GregorianDate(orig, april, 25))
        /\ PaschalMoon(orig) < absolute
        /\ \A n \in (PaschalMoon(orig) + 1)..(absolute - 1) : n % 7 # 0

\* Easter of 2022 was 17 April, the day after the paschal full moon of
\* Saturday 16 April
EasterSundayWitness ==
    /\ calendar = "easter"
    /\ steps = 1
    /\ orig = 2022
    /\ absolute = AbsoluteFromGregorian(GregorianDate(2022, april, 17))
    /\ PaschalMoon(orig) = absolute - 1

(***************************************************************************)
(* The weekday of the Hebrew new year.                                     *)
(***************************************************************************)
HebrewNewYears == CycleWindows({1, 5700})

InitHebrewNewYear ==
    \/ InitYear("HebrewCalendarElapsedDays", HebrewNewYears)
    \/ InitYear("hebrewNewYear", HebrewNewYears)

NextHebrewNewYear ==
    \/ CallHebrewCalendarElapsedDays
    \/ CallAbsoluteFromHebrewNewYear

SpecHebrewNewYear == InitHebrewNewYear /\ [][NextHebrewNewYear]_vars

\* C24: for every Hebrew year y >= 1, HebrewCalendarElapsedDays(y) mod 7 is
\* not 0, 3 or 5, neither is AbsoluteFromHebrew({y, 7, 1}) mod 7 (the new
\* year is never a Sunday, Wednesday or Friday), and
\* HebrewCalendarElapsedDays(y) is 0, 1 or 2 days after the day of the
\* conjunction.
HebrewNewYearWeekday ==
    /\ (calendar = "HebrewCalendarElapsedDays" /\ steps = 1) =>
           /\ absolute % 7 \notin {0, 3, 5}
           /\ absolute - HebrewConjunctionDay(orig) \in 0..2
    /\ (calendar = "hebrewNewYear" /\ steps = 1) => absolute % 7 \notin {0, 3, 5}

\* a year whose conjunction is on a Saturday and whose new year is postponed
\* twice, to the Monday (year 8 is one)
HebrewNewYearWeekdayWitness ==
    /\ calendar = "HebrewCalendarElapsedDays"
    /\ steps = 1
    /\ absolute - HebrewConjunctionDay(orig) = 2
    /\ HebrewConjunctionDay(orig) % 7 = 6

(***************************************************************************)
(* The lengths of Hebrew years.                                            *)
(***************************************************************************)
InitHebrewYearLengths == InitYear("DaysInHebrewYear", HebrewNewYears)

NextHebrewYearLengths == CallDaysInHebrewYear

SpecHebrewYearLengths == InitHebrewYearLengths /\ [][NextHebrewYearLengths]_vars

\* C25: for every Hebrew year y >= 1, DaysInHebrewYear(y) is 353, 354 or 355
\* when HebrewLeapYear(y) is false and 383, 384 or 385 when it is true, so
\* LongHeshvan(y) and ShortKislev(y) are never both true and the number of
\* days mod 10 is 3, 4 or 5.
HebrewYearLengths ==
    (calendar = "DaysInHebrewYear" /\ steps = 1) =>
        /\ ~HebrewLeapYear(orig) => daysBetween \in 353..355
        /\ HebrewLeapYear(orig) => daysBetween \in 383..385
        /\ ~(LongHeshvan(orig) /\ ShortKislev(orig))
        /\ mod(daysBetween, 10) \in {3, 4, 5}

\* a leap year of 385 days, in which Heshvan is long
HebrewYearLengthsWitness ==
    /\ calendar = "DaysInHebrewYear"
    /\ steps = 1
    /\ HebrewLeapYear(orig)
    /\ daysBetween = 385
    /\ LongHeshvan(orig)
    /\ ~ShortKislev(orig)

(***************************************************************************)
(* The lengths of the months against the lengths of the years.             *)
(***************************************************************************)
InitMonthLengths ==
    \/ InitYear("gregorian", CycleWindows({1, 1700}))
    \/ InitYear("julian", CycleWindows({1, 1700}))
    \/ InitYear("islamic", CycleWindows({1, 1400}))
    \/ InitYear("hebrew", HebrewNewYears)
    \/ InitYear("french", CycleWindows({1, 3700}))

NextMonthLengths ==
    \/ CallAbsoluteFromGregorianNewYears
    \/ CallAbsoluteFromJulianNewYears
    \/ CallAbsoluteFromIslamicNewYears
    \/ CallAbsoluteFromHebrewNewYears
    \/ CallAbsoluteFromFrenchNewYears

SpecMonthLengths == InitMonthLengths /\ [][NextMonthLengths]_vars

\* the last days of the months first .. last of a year, added up
DaysOfMonths(lastDay(_, _), first, last, year) ==
    sum(LAMBDA m : lastDay(m, year), first, LAMBDA m : m <= last)

\* the months of a year in their order and their last days added up
DaysOfYear(cal, year) ==
    CASE cal = "gregorian" -> DaysOfMonths(LastDayOfGregorianMonth, 1, 12, year)
      [] cal = "julian" -> DaysOfMonths(LastDayOfJulianMonth, 1, 12, year)
      [] cal = "islamic" -> DaysOfMonths(LastDayOfIslamicMonth, 1, 12, year)
      [] cal = "hebrew" ->
            DaysOfMonths(LastDayOfHebrewMonth, 7, LastMonthOfHebrewYear(year), year)
            + DaysOfMonths(LastDayOfHebrewMonth, 1, 6, year)
      [] cal = "french" -> DaysOfMonths(FrenchLastDayOfMonth, 1, 13, year)

\* the absolute date of the last day of a year
LastDayOfYear(cal, year) ==
    CASE cal = "gregorian" ->
            AbsoluteFromGregorian(GregorianDate(year, 12, LastDayOfGregorianMonth(12, year)))
      [] cal = "julian" ->
            AbsoluteFromJulian(JulianDate(year, 12, LastDayOfJulianMonth(12, year)))
      [] cal = "islamic" ->
            AbsoluteFromIslamic(IslamicDate(year, 12, LastDayOfIslamicMonth(12, year)))
      [] cal = "hebrew" -> AbsoluteFromHebrew(HebrewDate(year, 6, LastDayOfHebrewMonth(6, year)))
      [] cal = "french" ->
            AbsoluteFromFrench(FrenchDate(year, 13, FrenchLastDayOfMonth(13, year)))

\* the absolute date of the first day of a year
NewYear(cal, year) ==
    CASE cal = "gregorian" -> AbsoluteFromGregorian(GregorianDate(year, january, 1))
      [] cal = "julian" -> AbsoluteFromJulian(JulianDate(year, january, 1))
      [] cal = "islamic" -> AbsoluteFromIslamic(IslamicDate(year, muharram, 1))
      [] cal = "hebrew" -> AbsoluteFromHebrew(HebrewDate(year, 7, 1))
      [] cal = "french" -> AbsoluteFromFrench(FrenchDate(year, vendemiaire, 1))

\* C26: for the Gregorian, Julian, Islamic, Hebrew and French calendars and
\* every year y of their domain, the number of days from the new year of y
\* to the new year of y + 1, as AbsoluteFromX gives them, is the sum of
\* LastDayOfXMonth(m, y) over the months of y (12 months; Hebrew months 7 to
\* LastMonthOfHebrewYear(y), then 1 to 6; 13 French months), so the last day
\* of y is the day before the new year of y + 1.
MonthLengthsAgree ==
    (start = "year" /\ steps = 1
     /\ calendar \in {"gregorian", "julian", "islamic", "hebrew", "french"}) =>
        /\ daysBetween = DaysOfYear(calendar, orig)
        /\ LastDayOfYear(calendar, orig) + 1 = NewYear(calendar, orig + 1)

\* the Hebrew leap year 5782 has 384 days in 13 months
MonthLengthsAgreeWitness ==
    /\ start = "year"
    /\ steps = 1
    /\ calendar = "hebrew"
    /\ orig = 5782
    /\ LastMonthOfHebrewYear(orig) = 13
    /\ daysBetween = 384
    /\ DaysOfYear(calendar, orig) = 384

(***************************************************************************)
(* The first day of an ISO year.                                           *)
(***************************************************************************)
IsoYears == CycleWindows({1, 1700})

IsoYearDays == DayWindows({1, 730100, 737400})

InitIsoYear ==
    \/ InitYear("iso", IsoYears)
    \/ InitAbsolute("iso", IsoYearDays)

NextIsoYear ==
    \/ CallAbsoluteFromIsoNewYear
    \/ CallIsoFromAbsolute

SpecIsoYear == InitIsoYear /\ [][NextIsoYear]_vars

\* the years near year whose first ISO day is on or before absoluteDate and
\* whose successor's first ISO day is after it
IsoYearsHolding(absoluteDate, year) ==
    {y \in (year - 3)..(year + 3) :
        /\ AbsoluteFromIso(IsoDate(y, 1, 1)) <= absoluteDate
        /\ absoluteDate < AbsoluteFromIso(IsoDate(y + 1, 1, 1))}

\* C27: for every year y >= 1, AbsoluteFromIso({y, 1, 1}) is a Monday (its
\* value mod 7 is 1) among the seven days ending on Gregorian 4 January of
\* y; for every absolute date n >= 1, IsoFromAbsolute(n).Year is the one
\* year y with AbsoluteFromIso({y, 1, 1}) <= n < AbsoluteFromIso({y + 1, 1, 1}).
IsoYearStart ==
    /\ (start = "year" /\ calendar = "iso" /\ steps = 1) =>
        LET jan4 == AbsoluteFromGregorian(GregorianDate(orig, january, 4))
        IN  /\ absolute % 7 = 1
            /\ absolute \in (jan4 - 6)..jan4
    /\ (start = "absolute" /\ calendar = "iso" /\ steps = 1) =>
        IsoYearsHolding(orig, date.Year) = {date.Year}

\* 30 December 2019 is the first day of ISO year 2020
IsoYearStartWitness ==
    /\ start = "absolute"
    /\ calendar = "iso"
    /\ steps = 1
    /\ orig = AbsoluteFromIso(IsoDate(2020, 1, 1))
    /\ date = IsoDate(2020, 1, 1)
    /\ GregorianFromAbsolute(orig) = GregorianDate(2019, 12, 30)

(***************************************************************************)
(* The searches of the conversions from absolute dates.                    *)
(***************************************************************************)
SearchDays ==
    DayWindows({-1500000, -1373700, -730000, -400, 21, 226800, 654200, 738000})

SearchCalendars == {"gregorian", "julian", "islamic", "hebrew", "french"}

InitSearches == \E cal \in SearchCalendars : InitAbsolute(cal, SearchDays)

NextSearches ==
    \/ CallGregorianFromAbsolute
    \/ CallJulianFromAbsolute
    \/ CallIslamicFromAbsolute
    \/ CallHebrewFromAbsolute
    \/ CallFrenchFromAbsolute

SpecSearches == InitSearches /\ [][NextSearches]_vars

\* approx, the year at which the search for the year starts; the year of
\* GregorianFromAbsolute comes from no search
YearEstimate(cal, absoluteDate) ==
    CASE cal = "gregorian" -> GregorianFromAbsolute(absoluteDate).Year
      [] cal = "julian" -> Floor(absoluteDate + 2, 366)
      [] cal = "islamic" -> Floor(absoluteDate - 227014, 355)
      [] cal = "hebrew" -> Floor(absoluteDate + 1373429, 366)
      [] cal = "french" -> Floor(absoluteDate - 654414, 366)

\* the conversion returns before any search: the guards of
\* IslamicFromAbsolute and FrenchFromAbsolute
BeforeEpoch(cal, absoluteDate) ==
    \/ cal = "islamic" /\ absoluteDate <= 227014
    \/ cal = "french" /\ absoluteDate < 654415

\* the absolute date of the last day of month m of a year
LastDayOfMonth(cal, year, m) ==
    CASE cal = "gregorian" ->
            AbsoluteFromGregorian(GregorianDate(year, m, LastDayOfGregorianMonth(m, year)))
      [] cal = "julian" ->
            AbsoluteFromJulian(JulianDate(year, m, LastDayOfJulianMonth(m, year)))
      [] cal = "islamic" ->
            AbsoluteFromIslamic(IslamicDate(year, m, LastDayOfIslamicMonth(m, year)))
      [] cal = "hebrew" -> AbsoluteFromHebrew(HebrewDate(year, m, LastDayOfHebrewMonth(m, year)))
      [] cal = "french" ->
            AbsoluteFromFrench(FrenchDate(year, m, FrenchLastDayOfMonth(m, year)))

\* the month at which the search for the month starts
FirstMonth(cal, absoluteDate, year) ==
    IF cal = "hebrew" /\ absoluteDate < AbsoluteFromHebrew(HebrewDate(year, 1, 1))
    THEN 7
    ELSE 1

\* the months the search for the month of absoluteDate in year asks the
\* 12-entry table daysInMonths for: month 1, and month m + 1 when
\* absoluteDate is after the last days of the months 1 .. m
MonthsLookedUp(cal, absoluteDate, year) ==
    {1} \cup {m + 1 : m \in {k \in 1..12 :
                  \A j \in 1..k : absoluteDate > LastDayOfMonth(cal, year, j)}}

\* C28: for every integer absolute date n, in the domain of the calendar or
\* not, GregorianFromAbsolute, JulianFromAbsolute, IslamicFromAbsolute,
\* HebrewFromAbsolute and FrenchFromAbsolute return a date: the search for
\* the year goes up from its estimate and ends at a year whose successor
\* begins after n, the search for the month tests at most 13 months, the
\* tables of 12 months are asked for months 1 .. 12 only, and for n in the
\* domain the estimate is not above the year that holds n.
SearchesEnd ==
    (start = "absolute" /\ steps = 1 /\ calendar \in SearchCalendars
     /\ ~BeforeEpoch(calendar, orig)) =>
        LET first == FirstMonth(calendar, orig, date.Year)
        IN  /\ date.Year - YearEstimate(calendar, orig) \in Nat
            /\ orig < NewYear(calendar, date.Year + 1)
            /\ date.Month - first + 1 \in 1..13
            /\ orig <= LastDayOfMonth(calendar, date.Year, date.Month)
            /\ calendar \in {"gregorian", "julian"} =>
                   MonthsLookedUp(calendar, orig, date.Year) \subseteq 1..12
            /\ orig >= NewYear(calendar, 1) =>
                   /\ NewYear(calendar, date.Year) <= orig
                   /\ YearEstimate(calendar, orig) <= date.Year

\* an absolute date long before the first Julian year: the search for the
\* year ends at once at its estimate, the search for the month at month 1
SearchesEndWitness ==
    /\ start = "absolute"
    /\ steps = 1
    /\ calendar = "julian"
    /\ orig = -1500000
    /\ date.Year = YearEstimate(calendar, orig)
    /\ date.Month = 1
    /\ date.Day < 1

(***************************************************************************)
(* The quotient of two rational numbers.                                   *)
(***************************************************************************)
\* numerators are -RatioSpan .. RatioSpan
RatioSpan == 7

Ratios == {NewRat(a, b) : a \in (-RatioSpan)..RatioSpan, b \in 1..3}

InitQuotient ==
    InitPair("quotient", {p \in Ratios \X Ratios : RatSign[p[2]] # 0})

NextQuotient == CallQuotient

SpecQuotient == InitQuotient /\ [][NextQuotient]_vars

\* the integer part of x: x without its fraction, the rounding toward zero
Truncated(x) ==
    LET whole == NatFromMag(MagDivMod[x.num.mag, x.den][1])
    IN  IF x.num.neg THEN -whole ELSE whole

\* C30: quotient(x, y) is x / y truncated toward zero for every rational x
\* and every rational y other than zero, also where x / y is negative and
\* not an integer.
QuotientTruncates ==
    (start = "pair" /\ calendar = "quotient" /\ steps = 1) =>
        absolute = Truncated(RatQuo[date, date2])

(***************************************************************************)
(* json.go: the scanner and JsonToDate.  A Go string is the sequence of    *)
(* its runes here, each rune a string of one character.                    *)
(*   pc         the functions in progress, outermost first: <<"tokenize">>,*)
(*              <<"tokenize", "scanArray">>, <<"JsonToDate">> (the loop    *)
(*              over tokens), <<"parseNumArray">>,                         *)
(*              <<"parseNumArray", "scanArray">>, <<"panic">>, and <<>>    *)
(*              after JsonToDate has returned                              *)
(*   reader     the runes the scanner has not read yet                     *)
(*   buf        the buffer of scanArray                                    *)
(*   tokens, data, array   the locals of tokenize, JsonToDate and          *)
(*              parseNumArray                                              *)
(*   jsonDate   the Date that JsonToDate returned                          *)
(***************************************************************************)
\* const eof = rune(0)
eof == "NUL"

isWhitespace(ch) == ch \in {" ", "\t", "\n"}

\* the letters with accents, 'À' to 'ÿ', are in no input of the model
isLetter(ch) ==
    \/ ch \in {"a", "b", "c", "d", "e", "f", "g", "h", "i", "j", "k", "l", "m",
     "n", "o", "p", "q", "r", "s", "t", "u", "v", "w", "x", "y", "z"}
    \/ ch \in {"A", "B", "C", "D", "E", "F", "G", "H", "I", "J", "K", "L", "M",
     "N", "O", "P", "Q", "R", "S", "T", "U", "V", "W", "X", "Y", "Z"}
    \/ ch = "\""

isDigit(ch) == ch \in {"0", "1", "2", "3", "4", "5", "6", "7", "8", "9"}

\* Scanner.read: the next rune, or eof when the input has ended
read(r) == IF r = <<>> THEN eof ELSE Head(r)

\* the input after Scanner.read: a read at the end of the input leaves it
\* as it is
AfterRead(r) == IF r = <<>> THEN r ELSE Tail(r)

\* the number of runes at the head of r that satisfy p
Leading(r, p(_)) ==
    CHOOSE n \in 0..Len(r) :
        /\ \A i \in 1..n : p(r[i])
        /\ n < Len(r) => ~p(r[n + 1])

\* what a scan function returns, and the input it leaves
Scanned(tok, r, n) ==
    [token |-> tok, string |-> SubSeq(r, 1, n), rest |-> SubSeq(r, n + 1, Len(r))]

scanWhitespace(r) == Scanned("WS", r, Leading(r, isWhitespace))

skipWhitespace(r) == SubSeq(r, Leading(r, isWhitespace) + 1, Len(r))

scanDigits(r) == Scanned("DIGITS", r, Leading(r, isDigit))

\* the names of the calendars, rune by rune
Spelling ==
    [gregorian |-> <<"g", "r", "e", "g", "o", "r", "i", "a", "n">>,
     julian |-> <<"j", "u", "l", "i", "a", "n">>,
     iso |-> <<"i", "s", "o">>,
     islamic |-> <<"i", "s", "l", "a", "m", "i", "c">>,
     hebrew |-> <<"h", "e", "b", "r", "e", "w">>,
     mayanLongCount |-> <<"m", "a", "y", "a", "n", "L", "o", "n", "g", "C", "o", "u", "n", "t">>,
     mayanHaab |-> <<"m", "a", "y", "a", "n", "H", "a", "a", "b">>,
     mayanTzolkin |-> <<"m", "a", "y", "a", "n", "T", "z", "o", "l", "k", "i", "n">>,
     french |-> <<"f", "r", "e", "n", "c", "h">>,
     oldHinduSolar |-> <<"o", "l", "d", "H", "i", "n", "d", "u", "S", "o", "l", "a", "r">>,
     oldHinduLunar |-> <<"o", "l", "d", "H", "i", "n", "d", "u", "L", "u", "n", "a", "r">>]

calendarKey == <<"c", "a", "l", "e", "n", "d", "a", "r">>

componentsKey == <<"c", "o", "m", "p", "o", "n", "e", "n", "t", "s">>

scanName(r) ==
    LET s == Scanned("NAME_OR_STRING", r,
                     Leading(r, LAMBDA ch : isLetter(ch) \/ isDigit(ch) \/ ch = " "))
        nameOrString == SelectSeq(s.string, LAMBDA ch : ch # "\"")
    IN  [s EXCEPT !.string = nameOrString,
                  !.token = CASE nameOrString = calendarKey -> "CALENDAR"
                              [] nameOrString = componentsKey -> "COMPONENTS"
                              [] OTHER -> "NAME_OR_STRING"]

\* Scanner.Scan where the next rune is neither '[' nor eof
Scan(r) ==
    LET ch == Head(r)
    IN  CASE isWhitespace(ch) -> scanWhitespace(r)
          [] isLetter(ch) -> scanName(r)
          [] isDigit(ch) -> scanDigits(r)
          [] ch = "," -> Scanned("COMMA", r, 1)
          [] ch = ":" -> Scanned("COLON", r, 1)
          [] OTHER -> Scanned("ILLEGAL", r, 1)

\* strconv.ParseFloat of a string of digits
RECURSIVE ParseFloat(_)
ParseFloat(str) ==
    IF str = <<>> THEN 0
    ELSE 10 * ParseFloat(SubSeq(str, 1, Len(str) - 1))
         + (CHOOSE d \in 0..9 : str[Len(str)] = <<"0", "1", "2", "3", "4", "5", "6", "7", "8", "9">>[d + 1])

isValidCalendar(c) == \E name \in DOMAIN Spelling : Spelling[name] = c

\* the string of the model for a string of runes that data[CALENDAR] holds
CalendarString(c) ==
    IF c = <<>> THEN "" ELSE CHOOSE name \in DOMAIN Spelling : Spelling[name] = c

\* tokenize and parseNumArray: one pass of the loop, a call of Scan that
\* returns neither an ARRAY nor EOF
CallScan ==
    /\ pc \in {<<"tokenize">>, <<"parseNumArray">>}
    /\ read(reader) \notin {eof, "["}
    /\ LET t == Scan(reader)
       IN  /\ reader' = t.rest
           /\ tokens' = IF /\ pc = <<"tokenize">>
                           /\ t.token \in {"NAME_OR_STRING", "CALENDAR", "COMPONENTS"}
                        THEN Append(tokens, [token |-> t.token, string |-> t.string])
                        ELSE tokens
           /\ array' = IF pc = <<"parseNumArray">> /\ t.token = "DIGITS"
                       THEN Append(array, ParseFloat(t.string))
                       ELSE array
    /\ UNCHANGED <<pc, buf, data, jsonDate>>
    /\ UNCHANGED <<calendar, start, orig, date, absolute, nan, steps, date2, absolute2,
                   daysBetween, leap, heapVars>>

\* Scan reads '[' and calls scanArray, which skips whitespace first
CallScanArray ==
    /\ pc \in {<<"tokenize">>, <<"parseNumArray">>}
    /\ read(reader) = "["
    /\ pc' = Append(pc, "scanArray")
    /\ reader' = skipWhitespace(Tail(reader))
    /\ buf' = <<>>
    /\ UNCHANGED <<tokens, data, array, jsonDate>>
    /\ UNCHANGED <<calendar, start, orig, date, absolute, nan, steps, date2, absolute2,
                   daysBetween, leap, heapVars>>

\* the number of eof runes that scanArray may write before the model stops
\* following it
MaxEofRunes == 2

\* scanArray: a pass of its loop that reads a rune other than ']', also eof
ReadInScanArray ==
    /\ Len(pc) = 2
    /\ read(reader) # "]"
    /\ Len(SelectSeq(buf, LAMBDA ch : ch = eof)) < MaxEofRunes
    /\ buf' = IF read(reader) \notin {"\t", "\n"} THEN Append(buf, read(reader)) ELSE buf
    /\ reader' = AfterRead(reader)
    /\ UNCHANGED <<pc, tokens, data, array, jsonDate>>
    /\ UNCHANGED <<calendar, start, orig, date, absolute, nan, steps, date2, absolute2,
                   daysBetween, leap, heapVars>>

\* scanArray reads ']' and returns ARRAY and the buffer: tokenize keeps the
\* token, parseNumArray drops it
ReturnScanArray ==
    /\ Len(pc) = 2
    /\ read(reader) = "]"
    /\ pc' = <<Head(pc)>>
    /\ reader' = Tail(reader)
    /\ tokens' = IF Head(pc) = "tokenize"
                 THEN Append(tokens, [token |-> "ARRAY", string |-> buf])
                 ELSE tokens
    /\ buf' = <<>>
    /\ UNCHANGED <<data, array, jsonDate>>
    /\ UNCHANGED <<calendar, start, orig, date, absolute, nan, steps, date2, absolute2,
                   daysBetween, leap, heapVars>>

\* Scan returns EOF and tokenize returns tokens to JsonToDate
ReturnTokenize ==
    /\ pc = <<"tokenize">>
    /\ read(reader) = eof
    /\ pc' = <<"JsonToDate">>
    /\ UNCHANGED <<reader, buf, tokens, data, array, jsonDate>>
    /\ UNCHANGED <<calendar, start, orig, date, absolute, nan, steps, date2, absolute2,
                   daysBetween, leap, heapVars>>

\* the greatest i with tokens[i].token = tok, or 0
LastToken(toks, tok) ==
    LET found == {i \in 1..Len(toks) : toks[i].token = tok}
    IN  IF found = {} THEN 0 ELSE CHOOSE i \in found : \A j \in found : j <= i

\* the map data after the loop of JsonToDate over tokens, none of whose keys
\* is the last token; a key that is not in the map has the value ""
DataOf(toks) ==
    LET c == LastToken(toks, "CALENDAR")
        k == LastToken(toks, "COMPONENTS")
    IN  [CALENDAR |-> IF c > 0 /\ isValidCalendar(toks[c + 1].string)
                      THEN toks[c + 1].string
                      ELSE <<>>,
         COMPONENTS |-> IF k > 0 THEN toks[k + 1].string ELSE <<>>]

\* JsonToDate: the loop over tokens, which reads tokens[i+1] for every key
\* tokens[i], and the call of parseNumArray(data[COMPONENTS])
LoopOverTokens ==
    /\ pc = <<"JsonToDate">>
    /\ IF /\ tokens # <<>>
          /\ tokens[Len(tokens)].token \in {"CALENDAR", "COMPONENTS"}
       THEN /\ pc' = <<"panic">>
            /\ UNCHANGED <<reader, data>>
       ELSE /\ pc' = <<"parseNumArray">>
            /\ data' = DataOf(tokens)
            /\ reader' = data'.COMPONENTS
    /\ UNCHANGED <<buf, tokens, array, jsonDate>>
    /\ UNCHANGED <<calendar, start, orig, date, absolute, nan, steps, date2, absolute2,
                   daysBetween, leap, heapVars>>

\* Scan returns EOF, parseNumArray returns array and JsonToDate the Date
ReturnJsonToDate ==
    /\ pc = <<"parseNumArray">>
    /\ read(reader) = eof
    /\ pc' = <<>>
    /\ jsonDate' = [Calendar |-> CalendarString(data.CALENDAR), Components |-> array]
    /\ UNCHANGED <<reader, buf, tokens, data, array>>
    /\ UNCHANGED <<calendar, start, orig, date, absolute, nan, steps, date2, absolute2,
                   daysBetween, leap, heapVars>>

\* the number of components in the JSON text of a date
MaxComponents == 2

\* the JSON text of a date in pieces: {"components": [2022,6,15], "calendar":
\* "iso"} with MaxComponents components and a name for the calendar
Pieces(name) ==
    <<<<"{", "\n", "\t">>, <<"\"", "c", "o", "m", "p", "o", "n", "e", "n", "t", "s", "\"">>, <<":", " ">>, <<"[">>>>
    \o SubSeq(<<<<"2", "0", "2", "2">>, <<",", "6">>, <<",", "1", "5">>, <<",", "1">>>>, 1, MaxComponents)
    \o <<<<"]">>, <<",", "\n", "\t">>, <<"\"", "c", "a", "l", "e", "n", "d", "a", "r", "\"", ":", " ">>, name, <<"\n", "}">>>>

RECURSIVE Concat(_)
Concat(ss) == IF ss = <<>> THEN <<>> ELSE Head(ss) \o Concat(Tail(ss))

\* the texts that keep some of the pieces, in their order
TextsOf(pieces) ==
    {Concat([i \in 1..Len(pieces) |-> IF keep[i] THEN pieces[i] ELSE <<>>]) :
        keep \in [1..Len(pieces) -> BOOLEAN]}

JsonTexts == TextsOf(Pieces(<<"\"", "i", "s", "o", "\"">>)) \cup TextsOf(Pieces(<<"\"", "m", "a", "y", "a", "\"">>))

InitJsonToDate ==
    /\ pc = <<"tokenize">>
    /\ reader \in JsonTexts
    /\ buf = <<>>
    /\ tokens = <<>>
    /\ data = [CALENDAR |-> <<>>, COMPONENTS |-> <<>>]
    /\ array = <<>>
    /\ jsonDate = None
    /\ calendar = None
    /\ start = None
    /\ orig = reader
    /\ date = None
    /\ absolute = None
    /\ nan = FALSE
    /\ steps = 0
    /\ date2 = None
    /\ absolute2 = None
    /\ daysBetween = None
    /\ leap = None
    /\ NoHeap

NextJsonToDate ==
    \/ CallScan
    \/ CallScanArray
    \/ ReadInScanArray
    \/ ReturnScanArray
    \/ ReturnTokenize
    \/ LoopOverTokens
    \/ ReturnJsonToDate

SpecJsonToDate == InitJsonToDate /\ [][NextJsonToDate]_vars

\* C29: JsonToDate is total: for every finite string, well-formed JSON or
\* not, it does not panic, a key that is the last token causes no access
\* past the end of tokens, and scanArray stops when the input has ended
\* instead of reading on (a read after the end gives eof, which scanArray
\* would write to its buffer).
JsonToDateTotal ==
    /\ pc # <<"panic">>
    /\ Len(pc) = 2 => \A i \in 1..Len(buf) : buf[i] # eof

=============================================================================
